---- MODULE Spec2Model ----
(***************************************************************************)
(* Model of the circpush daemon: the monitor table and workspace name of   *)
(* the server (src/tcp/server.rs), the file monitors and their links       *)
(* (src/monitor.rs, src/link.rs) and the file system they mirror, the      *)
(* port registry and the clients that sweep it (src/tcp/client.rs) and the *)
(* workspace store (src/workspace.rs).                                     *)
(***************************************************************************)
EXTENDS Integers, Sequences, FiniteSets, TLC

\* ------------------------------------------------------------------ bounds
\* longest monitor table the clients build
MaxMonitors == 2
\* modification times are 0..MaxTime
MaxTime == 1
\* connections waiting in the listener's backlog
MaxPending == 1
\* external changes of the file system in one run
MaxFsEvents == 2

\* ------------------------------------------------------------ the universe
Names == {"f1", "f2"}
Bases == {"B1", "B2"}
WriteDirs == {"W1", "W2"}
Contents == {"c1", "c2"}
Times == 0..MaxTime
WorkspaceNames == {"w1", "w2"}
Ports == {1, 2}
Clients == {"c1", "c2"}

\* A file is a record; an absent file has the normal form NoFile, and a
\* directory in the place of a file the form Directory.
NoFile == [exists |-> FALSE, is_dir |-> FALSE, content |-> "", mtime |-> 0]
File(c, t) == [exists |-> TRUE, is_dir |-> FALSE, content |-> c, mtime |-> t]
Directory == [exists |-> TRUE, is_dir |-> TRUE, content |-> "", mtime |-> 0]

VARIABLES
    monitors,        \* ServerState.monitors: sequence of FileMonitor
    workspace_name,  \* ServerState.workspace_name
    pending,         \* number of connections waiting in the listener's backlog
    pc,              \* position of run_server: "loop", "pass", "done",
                     \* "panicked"
    pass_i,          \* index of the monitor the reconcile branch handles next
    has_broken_monitors,
    src,             \* source files: [Bases \X Names -> file]
    dst,             \* destination files: [WriteDirs \X Names -> file]
    wdir,            \* which write directories exist
    fs_events,       \* external file-system changes so far
    last,            \* what the most recent step did (observation only)
    last_set_name,   \* name of the most recent SetWorkspaceName request
    port_files,      \* the port directory: the ports that have a file
    live,            \* the ports a running daemon listens on
    clients,         \* the clients that run get_port or stop_server
    inflight,        \* the connection of the client waiting for its response
    workspaces,      \* the workspace directory: the file name.json of each
                     \* workspace name
    workspace_client, \* the client that runs a workspace command
    workspace_dirs   \* the workspace directory: its sub-directories

vars == <<monitors, workspace_name, pending, pc, pass_i, has_broken_monitors,
          src, dst, wdir, fs_events, last, last_set_name,
          port_files, live, clients, inflight, workspaces, workspace_client,
          workspace_dirs>>

\* what the daemon's loop never touches
outside == <<port_files, live, clients, inflight, workspaces, workspace_client,
             workspace_dirs>>

\* ------------------------------------------------------------ src/link.rs
FileLink(source, destination) == [source |-> source, destination |-> destination]

\* FileLink::is_outdated
\* (variants of is_outdated with a slip in the comparison)
is_outdated_ge(link, s, d) ==
    \/ ~d[link.destination].exists
    \/ s[link.source].mtime >= d[link.destination].mtime

is_outdated_exists(link, s, d) ==
    ~d[link.destination].exists

is_outdated(link, s, d) ==
    \/ ~d[link.destination].exists
    \/ s[link.source].mtime > d[link.destination].mtime

\* FileLink::ensure_writepath: create_dir_all on the destination's parent
ensure_writepath(link, d, w) ==
    IF ~d[link.destination].exists
    THEN [w EXCEPT ![link.destination[1]] = TRUE]
    ELSE w

\* FileLink::update: the file the destination becomes
\* (variant without the set_file_mtime call: the copy keeps the time of writing)
update_unstamped(link, s) ==
    File(s[link.source].content, MaxTime)

update(link, s) ==
    File(s[link.source].content, s[link.source].mtime)

\* FileLink::update when the source is written between its two reads: fs::copy
\* reads the content from s, get_file_mtime reads the time from s2
update_interleaved(link, s, s2) ==
    File(s[link.source].content, s2[link.source].mtime)

\* ---------------------------------------------------------- src/monitor.rs
FileMonitor(read_pattern, write_directory, base_directory) ==
    [read_pattern |-> read_pattern, write_directory |-> write_directory,
     base_directory |-> base_directory, links |-> <<>>]

\* glob::glob fails on a malformed pattern
ValidGlob(pattern) == pattern # "["

\* glob matching of one path component
GlobMatch(pattern, name) ==
    CASE pattern = "*" -> TRUE
      [] pattern = "[" -> FALSE
      [] OTHER -> pattern = name

\* FileMonitor::get_write_path of the source base_directory/name
get_write_path(m, name) == <<m.write_directory, name>>

\* (variant without the is_file filter on the paths glob yields)
calculate_monitored_files_unfiltered(m, s) ==
    IF ~ValidGlob(m.read_pattern)
    THEN [err |-> "PartialGlobMatch", links |-> {}]
    ELSE [err |-> "",
          links |-> {FileLink(<<m.base_directory, n>>, get_write_path(m, n)) :
                        n \in {x \in Names : /\ GlobMatch(m.read_pattern, x)
                                             /\ s[<<m.base_directory, x>>].exists}}]

\* FileMonitor::calculate_monitored_files: glob yields the paths that exist
\* and match, the filter keeps the regular files
calculate_monitored_files(m, s) ==
    IF ~ValidGlob(m.read_pattern)
    THEN [err |-> "PartialGlobMatch", links |-> {}]
    ELSE [err |-> "",
          links |-> {FileLink(<<m.base_directory, n>>, get_write_path(m, n)) :
                        n \in {x \in Names : /\ GlobMatch(m.read_pattern, x)
                                             /\ s[<<m.base_directory, x>>].exists
                                             /\ ~s[<<m.base_directory, x>>].is_dir}}]

\* (variant that removes nothing)
DeleteAll_skipped(links, d) == d

\* the destinations of a set of links removed
DeleteAll(links, d) ==
    [p \in DOMAIN d |-> IF \E l \in links : l.destination = p THEN NoFile ELSE d[p]]

\* the destinations of a set of links updated from their sources
CopyAll(links, s, d) ==
    [p \in DOMAIN d |->
        IF \E l \in links : l.destination = p
        THEN update(CHOOSE l \in links : l.destination = p, s)
        ELSE d[p]]

\* the write directories after ensure_writepath on each link of a set
EnsureAll(links, d, w) ==
    [x \in DOMAIN w |-> w[x] \/ \E l \in links : ensure_writepath(l, d, w)[x]]

\* The elements of a sequence, and the orders a HashSet may iterate a set in.
Range(seq) == {seq[k] : k \in 1..Len(seq)}
Orders(S) ==
    {f \in [1..Cardinality(S) -> S] : \A i, j \in 1..Cardinality(S) : f[i] = f[j] => i = j}

\* (variant that stores the new set of links before it deletes anything)
update_links_swaps_first(m, s, d, w) ==
    LET calc == calculate_monitored_files(m, s)
        removed == SelectSeq(m.links, LAMBDA l : l \notin calc.links)
        failing == {k \in 1..Len(removed) : ~d[removed[k].destination].exists}
    IN  IF calc.err # ""
        THEN {[res |-> calc.err, links |-> m.links, dst |-> d, wdir |-> w,
               copied |-> {}, deleted |-> {}]}
        ELSE IF failing # {}
        THEN LET first == CHOOSE k \in failing : \A j \in failing : k <= j
                 done == {removed[k] : k \in 1..(first - 1)}
             IN  {[res |-> "FileIOError", links |-> order,
                   dst |-> DeleteAll(done, d), wdir |-> w,
                   copied |-> {}, deleted |-> done] :
                        order \in Orders(calc.links)}
        ELSE LET d1 == DeleteAll(Range(removed), d)
                 outdated == {l \in calc.links : is_outdated(l, s, d1)}
             IN  {[res |-> "Ok", links |-> order,
                   dst |-> CopyAll(outdated, s, d1),
                   wdir |-> EnsureAll(outdated, d1, w),
                   copied |-> outdated, deleted |-> Range(removed)] :
                        order \in Orders(calc.links)}

\* FileMonitor::update_links on monitor m in file system (s, d, w): the set of
\* possible outcomes.  m.links is the HashSet in its iteration order: the
\* deletions run in that order and stop at the first one that fails; the set
\* stored at the end is a new HashSet, with an order of its own.
update_links(m, s, d, w) ==
    LET calc == calculate_monitored_files(m, s)
        removed == SelectSeq(m.links, LAMBDA l : l \notin calc.links)
        failing == {k \in 1..Len(removed) : ~d[removed[k].destination].exists}
    IN  IF calc.err # ""
        THEN {[res |-> calc.err, links |-> m.links, dst |-> d, wdir |-> w,
               copied |-> {}, deleted |-> {}]}
        ELSE IF failing # {}
        THEN LET first == CHOOSE k \in failing : \A j \in failing : k <= j
                 done == {removed[k] : k \in 1..(first - 1)}
             IN  {[res |-> "FileIOError", links |-> m.links,
                   dst |-> DeleteAll(done, d), wdir |-> w,
                   copied |-> {}, deleted |-> done]}
        ELSE LET d1 == DeleteAll(Range(removed), d)
                 outdated == {l \in calc.links : is_outdated(l, s, d1)}
             IN  {[res |-> "Ok", links |-> order,
                   dst |-> CopyAll(outdated, s, d1),
                   wdir |-> EnsureAll(outdated, d1, w),
                   copied |-> outdated, deleted |-> Range(removed)] :
                        order \in Orders(calc.links)}

\* FileMonitor::write_directory_exists
write_directory_exists(m, w) == w[m.write_directory]


\* --------------------------------------------------------- src/commands.rs
STOP_RESPONSE == "@stopping"

NoData == [type |-> "NoData"]
Message(msg) == [type |-> "Message", msg |-> msg]
ErrorMessage(msg) == [type |-> "ErrorMessage", msg |-> msg]
Links(json) == [type |-> "Links", json |-> json]

\* the monitors a client asks for: (read_pattern, write_directory, base_directory)
StartInputs ==
    { <<"*", "W1", "B1">>, <<"f1", "W1", "B2">>, <<"[", "W2", "B1">> }

Requests ==
    {[type |-> "Ping"], [type |-> "Shutdown"], [type |-> "ViewWorkspaceName"]}
    \cup {[type |-> "StartLink", read_pattern |-> i[1], write_directory |-> i[2],
           base_directory |-> i[3]] : i \in StartInputs}
    \cup {[type |-> "StopLink", number |-> n] : n \in 0..(MaxMonitors + 1)}
    \cup {[type |-> "ViewLink", number |-> n] : n \in 0..(MaxMonitors + 1)}
    \cup {[type |-> "SetWorkspaceName", name |-> w] : w \in WorkspaceNames}

\* the source and destination paths some monitor can reach
SrcPaths ==
    {p \in Bases \X Names :
        \E i \in StartInputs : i[3] = p[1] /\ GlobMatch(i[1], p[2])}
DstPaths ==
    {p \in WriteDirs \X Names :
        \E i \in StartInputs : i[2] = p[1] /\ GlobMatch(i[1], p[2])}

\* ------------------------------------------------------- src/tcp/server.rs
\* format!("{n}") of a link number
NumStr(n) ==
    CASE n = 0 -> "0" [] n = 1 -> "1" [] n = 2 -> "2" [] n = 3 -> "3"
      [] n = 4 -> "4" [] n = 5 -> "5" [] n = 6 -> "6" [] n = 7 -> "7"
      [] n = 8 -> "8" [] OTHER -> "9"

\* (variant that takes the 1-based number for the 0-based index)
RemoveAt_zero_based(seq, number) ==
    [k \in 1..(Len(seq) - 1) |-> IF k < number + 1 THEN seq[k] ELSE seq[k + 1]]

\* Vec::remove(index) with index = number - 1
RemoveAt(seq, number) ==
    [k \in 1..(Len(seq) - 1) |-> IF k < number THEN seq[k] ELSE seq[k + 1]]

\* serde_json::to_string of a list of monitors: every field of each monitor,
\* in list order
to_json(mons) ==
    [k \in 1..Len(mons) |->
        [read_pattern |-> mons[k].read_pattern,
         write_directory |-> mons[k].write_directory,
         base_directory |-> mons[k].base_directory,
         links |-> mons[k].links]]

\* (variant that clears the workspace name before it looks at the number)
StopLink_clears_first(number, mons, ws) ==
    IF number = 0
    THEN [monitors |-> <<>>, workspace_name |-> "",
          response |-> Message("All links cleared!")]
    ELSE IF mons = <<>>
    THEN [monitors |-> mons, workspace_name |-> "",
          response |-> ErrorMessage("No links are active")]
    ELSE IF number > Len(mons)
    THEN [monitors |-> mons, workspace_name |-> "",
          response |-> ErrorMessage("Link " \o NumStr(number) \o " does not exist!")]
    ELSE [monitors |-> RemoveAt(mons, number), workspace_name |-> "",
          response |-> Message("Link removed!")]

\* (variant that forgets to clear the workspace name when it removes one link)
StopLink_keeps_name(number, mons, ws) ==
    IF number = 0
    THEN [monitors |-> <<>>, workspace_name |-> "",
          response |-> Message("All links cleared!")]
    ELSE IF mons = <<>>
    THEN [monitors |-> mons, workspace_name |-> ws,
          response |-> ErrorMessage("No links are active")]
    ELSE IF number > Len(mons)
    THEN [monitors |-> mons, workspace_name |-> ws,
          response |-> ErrorMessage("Link " \o NumStr(number) \o " does not exist!")]
    ELSE [monitors |-> RemoveAt(mons, number), workspace_name |-> ws,
          response |-> Message("Link removed!")]

\* the StopLink arm of handle_connection
StopLink(number, mons, ws) ==
    IF number = 0
    THEN [monitors |-> <<>>, workspace_name |-> "",
          response |-> Message("All links cleared!")]
    ELSE IF mons = <<>>
    THEN [monitors |-> mons, workspace_name |-> ws,
          response |-> ErrorMessage("No links are active")]
    ELSE IF number > Len(mons)
    THEN [monitors |-> mons, workspace_name |-> ws,
          response |-> ErrorMessage("Link " \o NumStr(number) \o " does not exist!")]
    ELSE [monitors |-> RemoveAt(mons, number), workspace_name |-> "",
          response |-> Message("Link removed!")]

\* (variant that answers the first `number` monitors instead of the one asked for)
ViewLink_prefix(number, mons, ws) ==
    IF number = 0
    THEN [monitors |-> mons, workspace_name |-> ws, response |-> Links(to_json(mons))]
    ELSE IF mons = <<>>
    THEN [monitors |-> mons, workspace_name |-> ws,
          response |-> ErrorMessage("No links are active")]
    ELSE IF number > Len(mons)
    THEN [monitors |-> mons, workspace_name |-> ws,
          response |-> ErrorMessage("Link " \o NumStr(number) \o " does not exist!")]
    ELSE [monitors |-> mons, workspace_name |-> ws,
          response |-> Links(to_json(SubSeq(mons, 1, number)))]

\* the ViewLink arm of handle_connection
ViewLink(number, mons, ws) ==
    IF number = 0
    THEN [monitors |-> mons, workspace_name |-> ws, response |-> Links(to_json(mons))]
    ELSE IF mons = <<>>
    THEN [monitors |-> mons, workspace_name |-> ws,
          response |-> ErrorMessage("No links are active")]
    ELSE IF number > Len(mons)
    THEN [monitors |-> mons, workspace_name |-> ws,
          response |-> ErrorMessage("Link " \o NumStr(number) \o " does not exist!")]
    ELSE [monitors |-> mons, workspace_name |-> ws,
          response |-> Links(to_json(<<mons[number]>>))]

\* (variant that does not add a monitor whose identity is already in the table)
StartLink_dedup(request, mons, ws) ==
    LET new_monitor == FileMonitor(request.read_pattern, request.write_directory,
                                   request.base_directory)
        present == \E k \in 1..Len(mons) :
                      /\ mons[k].read_pattern = new_monitor.read_pattern
                      /\ mons[k].write_directory = new_monitor.write_directory
                      /\ mons[k].base_directory = new_monitor.base_directory
        pushed == IF present THEN mons ELSE Append(mons, new_monitor)
    IN  [monitors |-> pushed, workspace_name |-> "",
         response |-> Message("Link " \o NumStr(Len(pushed)) \o " started!")]

\* (variant that puts the new monitor in front of the table)
StartLink_in_front(request, mons, ws) ==
    LET new_monitor == FileMonitor(request.read_pattern, request.write_directory,
                                   request.base_directory)
        pushed == <<new_monitor>> \o mons
    IN  [monitors |-> pushed, workspace_name |-> "",
         response |-> Message("Link " \o NumStr(Len(pushed)) \o " started!")]

\* the StartLink arm of handle_connection
StartLink(request, mons, ws) ==
    LET new_monitor == FileMonitor(request.read_pattern, request.write_directory,
                                   request.base_directory)
        pushed == Append(mons, new_monitor)
    IN  [monitors |-> pushed, workspace_name |-> "",
         response |-> Message("Link " \o NumStr(Len(pushed)) \o " started!")]

\* (variant that keeps a name already set)
SetWorkspaceName_once(name, mons, ws) ==
    [monitors |-> mons, workspace_name |-> IF ws = "" THEN name ELSE ws,
     response |-> NoData]

\* the SetWorkspaceName arm of handle_connection
SetWorkspaceName(name, mons, ws) ==
    [monitors |-> mons, workspace_name |-> name, response |-> NoData]

\* (variant whose loop goes on after a Shutdown request)
handle_connection_keeps_running(request, mons, ws) ==
    LET same(resp) == [monitors |-> mons, workspace_name |-> ws, response |-> resp]
        r == CASE request.type = "Ping" -> same(NoData)
               [] request.type = "Shutdown" -> same(Message(STOP_RESPONSE))
               [] request.type = "StartLink" -> StartLink(request, mons, ws)
               [] request.type = "StopLink" -> StopLink(request.number, mons, ws)
               [] request.type = "ViewLink" -> ViewLink(request.number, mons, ws)
               [] request.type = "ViewWorkspaceName" -> same(Message(ws))
               [] OTHER -> SetWorkspaceName(request.name, mons, ws)
    IN  [monitors |-> r.monitors, workspace_name |-> r.workspace_name,
         response |-> r.response, keep_running |-> TRUE]

\* handle_connection: the new state, the response and whether to keep running
handle_connection(request, mons, ws) ==
    LET same(resp) == [monitors |-> mons, workspace_name |-> ws, response |-> resp]
        r == CASE request.type = "Ping" -> same(NoData)
               [] request.type = "Shutdown" -> same(Message(STOP_RESPONSE))
               [] request.type = "StartLink" -> StartLink(request, mons, ws)
               [] request.type = "StopLink" -> StopLink(request.number, mons, ws)
               [] request.type = "ViewLink" -> ViewLink(request.number, mons, ws)
               [] request.type = "ViewWorkspaceName" -> same(Message(ws))
               [] OTHER -> SetWorkspaceName(request.name, mons, ws)
    IN  [monitors |-> r.monitors, workspace_name |-> r.workspace_name,
         response |-> r.response, keep_running |-> request.type # "Shutdown"]

\* (variant that also drops the monitors that hold no link)
retain_linked(mons, w) ==
    SelectSeq(mons, LAMBDA m : write_directory_exists(m, w) /\ m.links # <<>>)

\* Vec::retain(|monitor| monitor.write_directory_exists())
retain(mons, w) == SelectSeq(mons, LAMBDA m : write_directory_exists(m, w))

\* ------------------------------------------------------------ observation
NoRequest == [type |-> "none"]
Observed(op, req, response, mon, res, copied, deleted) ==
    [op |-> op, req |-> req, response |-> response, mon |-> mon, res |-> res,
     copied |-> copied, deleted |-> deleted]
Quiet(op) == Observed(op, NoRequest, NoData, 0, "", {}, {})

\* ------------------------------------------------------ src/tcp/client.rs
\* the port the daemon of this model listens on (bind_socket records it)
DaemonPort == 1

\* a client that is not running a command
IdleClient ==
    [pc |-> "idle", op |-> "none", todo |-> <<>>, active_ports |-> <<>>,
     port |-> 0, response |-> NoData, undisturbed |-> TRUE]

\* no client is waiting for a response of the daemon
NoInflight == [at |-> 0, request |-> NoRequest]

\* communicate, the reading end: the client whose connection the daemon has
\* just handled deserializes the response; a client still waiting when the
\* daemon exits reads nothing and its `expect` panics
Receive(client, response, keep_running) ==
    IF client.pc # "waiting" THEN client
    ELSE IF inflight.at = 1
    THEN [client EXCEPT !.pc = "answered", !.response = response]
    ELSE IF ~keep_running THEN [client EXCEPT !.pc = "failed"]
    ELSE client

\* ------------------------------------------------------- src/workspace.rs
\* no file of that name in the workspace directory
NoWorkspace == [exists |-> FALSE, desc |-> "", monitors |-> <<>>]

\* the descriptions a workspace is saved with
Descs == {"d1"}

\* the names workspaces are saved under
SaveNames == {"w1"}

\* Workspace::new
Workspace(desc, mons) == [desc |-> desc, monitors |-> mons]

\* serde_json::from_str of a list of monitors: each monitor with its fields;
\* its links go into a new HashSet, which iterates in an order of its own
from_str(json) ==
    LET orders == UNION {Orders(Range(json[k].links)) : k \in 1..Len(json)}
    IN  {[k \in 1..Len(json) |->
            [read_pattern |-> json[k].read_pattern,
             write_directory |-> json[k].write_directory,
             base_directory |-> json[k].base_directory,
             links |-> o[k]]] :
         o \in {f \in [1..Len(json) -> orders] :
                    \A k \in 1..Len(json) : f[k] \in Orders(Range(json[k].links))}}

\* (variant that keeps the links)
clone_linkless_keeps_links(m) == m

\* FileMonitor::clone_linkless
clone_linkless(m) == [m EXCEPT !.links = <<>>]

\* Workspace::save_as_filepath: the new content of the file
save_as_filepath(workspace) ==
    [exists |-> TRUE, desc |-> workspace.desc,
     monitors |-> to_json([k \in 1..Len(workspace.monitors) |->
                              clone_linkless(workspace.monitors[k])])]

\* (variant that overwrites without being forced to)
save_as_name_overwrites(workspace, name, overwrite, store) ==
    [err |-> "", store |-> [store EXCEPT ![name] = save_as_filepath(workspace)]]

\* Workspace::save_as_name
save_as_name(workspace, name, overwrite, store) ==
    IF store[name].exists /\ ~overwrite
    THEN [err |-> "AlreadyExists", store |-> store]
    ELSE [err |-> "", store |-> [store EXCEPT ![name] = save_as_filepath(workspace)]]

\* a workspace file without content (no save writes one: a saved workspace
\* holds at least one monitor)
Blank == [exists |-> TRUE, desc |-> "", monitors |-> <<>>]

\* Workspace::from_name: the workspaces the file can be read as
from_name(name, store) ==
    IF ~store[name].exists
    THEN {[err |-> "DoesNotExist", desc |-> "", monitors |-> <<>>]}
    ELSE IF store[name] = Blank
    THEN {[err |-> "UnexpectedFormat", desc |-> "", monitors |-> <<>>]}
    ELSE {[err |-> "", desc |-> store[name].desc, monitors |-> mons] :
            mons \in from_str(store[name].monitors)}

\* (variant that saves an empty list of monitors)
save_workspace_unchecked(name, desc, force, monitor_list, store) ==
    LET saved == save_as_name(Workspace(desc, monitor_list), name, force, store)
    IN  IF saved.err = ""
        THEN [ok |-> TRUE, err |-> "", store |-> saved.store,
              msg |-> "Saved the current set of file monitors as workspace '"
                      \o name \o "'"]
        ELSE [ok |-> FALSE, err |-> saved.err, store |-> saved.store,
              msg |-> "Workspace '" \o name
                      \o "' already exists, use --force to overwrite it"]

\* save_workspace once it has the list of the daemon's monitors
save_workspace(name, desc, force, monitor_list, store) ==
    IF monitor_list = <<>>
    THEN [ok |-> FALSE, err |-> "", store |-> store,
          msg |-> "No file monitors are active to save"]
    ELSE LET saved == save_as_name(Workspace(desc, monitor_list), name, force, store)
         IN  IF saved.err = ""
             THEN [ok |-> TRUE, err |-> "", store |-> saved.store,
                   msg |-> "Saved the current set of file monitors as workspace '"
                           \o name \o "'"]
             ELSE [ok |-> FALSE, err |-> saved.err, store |-> saved.store,
                   msg |-> "Workspace '" \o name
                           \o "' already exists, use --force to overwrite it"]

\* (variant that starts the monitors from the last to the first)
next_request_last_first(todo, name) ==
    IF todo = <<>>
    THEN [type |-> "SetWorkspaceName", name |-> name]
    ELSE [type |-> "StartLink", read_pattern |-> todo[Len(todo)].read_pattern,
          write_directory |-> todo[Len(todo)].write_directory,
          base_directory |-> todo[Len(todo)].base_directory]

\* load_workspace: the request it sends when `todo` are the monitors of the
\* workspace it has not started yet
next_request(todo, name) ==
    IF todo = <<>>
    THEN [type |-> "SetWorkspaceName", name |-> name]
    ELSE [type |-> "StartLink", read_pattern |-> todo[1].read_pattern,
          write_directory |-> todo[1].write_directory,
          base_directory |-> todo[1].base_directory]

\* the names the workspace files of the store commands have, and the
\* sub-directories somebody may have made beside them
StoreNames == WorkspaceNames \cup {"w10"}
SubDirs == {"junkfolder", "w1"}

\* Workspace::get_filepath_for_name, inside the workspace directory: the
\* name with the extension json
get_filepath_for_name(name) == name \o ".json"

\* Path::file_stem of an entry of the workspace directory: the file name
\* without its extension
file_stem(file_name) ==
    IF \E n \in StoreNames : file_name = n \o ".json"
    THEN CHOOSE n \in StoreNames : file_name = n \o ".json"
    ELSE file_name

\* str::as_bytes of the names
as_bytes(name) ==
    CASE name = "w1" -> <<119, 49>>
      [] name = "w2" -> <<119, 50>>
      [] name = "w10" -> <<119, 49, 48>>
      [] OTHER -> <<>>

\* Ord for str: byte strings compare lexicographically
RECURSIVE lt(_, _)
lt(a, b) ==
    IF b = <<>> THEN FALSE
    ELSE IF a = <<>> THEN TRUE
    ELSE IF Head(a) # Head(b) THEN Head(a) < Head(b)
    ELSE lt(Tail(a), Tail(b))

\* Vec::sort of a list of names: each name goes behind the names that are
\* not greater
RECURSIVE sort(_)
sort(names) ==
    IF names = <<>> THEN <<>>
    ELSE LET rest == sort(SubSeq(names, 1, Len(names) - 1))
             x == names[Len(names)]
             before == SelectSeq(rest, LAMBDA y : ~lt(as_bytes(x), as_bytes(y)))
             after == SelectSeq(rest, LAMBDA y : lt(as_bytes(x), as_bytes(y)))
         IN  before \o <<x>> \o after

\* the names of a list, each followed by a new line, without the last new line
RECURSIVE lines(_)
lines(names) ==
    IF Len(names) = 1 THEN names[1]
    ELSE names[1] \o "\n" \o lines(Tail(names))

\* read_dir of the workspace directory: its entries, files and directories
read_dir(store, dirs) ==
    {[file_name |-> get_filepath_for_name(n), is_file |-> TRUE] :
        n \in {x \in DOMAIN store : store[x].exists}}
    \cup {[file_name |-> d, is_file |-> FALSE] : d \in dirs}

\* (variant that lists the sub-directories too)
list_workspaces_all_entries(entries) ==
    LET workspace_names == [k \in 1..Len(entries) |-> file_stem(entries[k].file_name)]
    IN  IF workspace_names = <<>>
        THEN "No workspaces have been saved"
        ELSE lines(sort(workspace_names))

\* list_workspaces, given the entries in the order read_dir yields them
list_workspaces(entries) ==
    LET files == SelectSeq(entries, LAMBDA e : e.is_file)
        workspace_names == [k \in 1..Len(files) |-> file_stem(files[k].file_name)]
    IN  IF workspace_names = <<>>
        THEN "No workspaces have been saved"
        ELSE lines(sort(workspace_names))

\* (variant that refuses to replace a workspace)
rename_workspace_checked(orig, new, store) ==
    IF ~store[orig].exists \/ store[new].exists
    THEN [ok |-> FALSE, store |-> store,
          msg |-> "Workspace '" \o orig \o "' does not exist"]
    ELSE [ok |-> TRUE,
          store |-> [[store EXCEPT ![orig] = NoWorkspace] EXCEPT ![new] = store[orig]],
          msg |-> "Renamed workspace '" \o orig \o "' to '" \o new \o "'"]

\* rename_workspace; fs::rename of a file to itself does nothing
rename_workspace(orig, new, store) ==
    IF ~store[orig].exists
    THEN [ok |-> FALSE, store |-> store,
          msg |-> "Workspace '" \o orig \o "' does not exist"]
    ELSE [ok |-> TRUE,
          store |-> IF get_filepath_for_name(orig) = get_filepath_for_name(new)
                    THEN store
                    ELSE [[store EXCEPT ![orig] = NoWorkspace]
                                 EXCEPT ![new] = store[orig]],
          msg |-> "Renamed workspace '" \o orig \o "' to '" \o new \o "'"]

\* delete_workspace
delete_workspace(name, store) ==
    IF ~store[name].exists
    THEN [ok |-> FALSE, store |-> store,
          msg |-> "Workspace '" \o name \o "' does not exist"]
    ELSE [ok |-> TRUE, store |-> [store EXCEPT ![name] = NoWorkspace],
          msg |-> "Deleted workspace '" \o name \o "'"]

\* the client is not running a workspace command
IdleWorkspaceClient ==
    [pc |-> "idle", op |-> "none", step |-> "", name |-> "", desc |-> "",
     force |-> FALSE, response |-> NoData, todo |-> <<>>, ok |-> FALSE,
     err |-> "", result |-> ""]

\* ------------------------------------------------------------------- Init
\* B1 is either empty or already holds its two files when the daemon starts.
InitSources ==
    { [p \in Bases \X Names |-> NoFile],
      [p \in Bases \X Names |-> IF p[1] = "B1" THEN File("c1", 0) ELSE NoFile] }

\* run_server before its first loop iteration
Init ==
    /\ monitors = <<>>
    /\ workspace_name = ""
    /\ pending = 0
    /\ pc = "loop"
    /\ pass_i = 1
    /\ has_broken_monitors = FALSE
    /\ src \in InitSources
    /\ dst = [p \in WriteDirs \X Names |-> NoFile]
    /\ wdir = [w \in WriteDirs |-> TRUE]
    /\ fs_events = 0
    /\ last = Quiet("init")
    /\ last_set_name = ""
    /\ port_files = {DaemonPort}
    /\ live = {DaemonPort}
    /\ clients = [c \in Clients |-> IdleClient]
    /\ inflight = NoInflight
    /\ workspaces = [w \in WorkspaceNames |-> NoWorkspace]
    /\ workspace_client = IdleWorkspaceClient
    /\ workspace_dirs = {}

\* ---------------------------------------------------------------- clients
\* A client connects (open_connection in tcp/client.rs); the connection waits
\* in the listener's backlog until the daemon accepts it.
Connect ==
    /\ pc \notin {"done", "panicked"}
    /\ pending < MaxPending
    /\ pending' = pending + 1
    /\ UNCHANGED <<monitors, workspace_name, pc, pass_i, has_broken_monitors,
                   src, dst, wdir, fs_events, last, last_set_name>>
    /\ UNCHANGED outside

\* stop_server after get_port: communicate opens the connection to the
\* daemon's port and writes the Shutdown request
StopServerConnect(c) ==
    /\ clients[c].pc = "swept" /\ clients[c].op = "stop_server"
    /\ clients[c].port = DaemonPort
    /\ pc # "done"
    /\ pending < MaxPending
    /\ inflight = NoInflight
    /\ pending' = pending + 1
    /\ inflight' = [at |-> pending + 1, request |-> [type |-> "Shutdown"]]
    /\ clients' = [clients EXCEPT ![c].pc = "waiting"]
    /\ UNCHANGED <<monitors, workspace_name, pc, pass_i, has_broken_monitors,
                   src, dst, wdir, fs_events, last, last_set_name,
                   port_files, live, workspaces, workspace_client,
                   workspace_dirs>>

\* communicate: nothing arrives within the read timeout of open_connection
\* and `expect("Could not deserialize the response")` panics; the request
\* stays with the daemon
ReadTimeout(c) ==
    /\ clients[c].pc = "waiting"
    /\ clients' = [clients EXCEPT ![c].pc = "failed"]
    /\ UNCHANGED <<monitors, workspace_name, pending, pc, pass_i,
                   has_broken_monitors, src, dst, wdir, fs_events, last,
                   last_set_name, port_files, live, inflight, workspaces,
                   workspace_client, workspace_dirs>>

\* stop_server after the response: anything but Message{STOP_RESPONSE} is an
\* error; otherwise remove the port file, and panic if it is not there
RemovePortFile(c) ==
    /\ clients[c].pc = "answered" /\ clients[c].op = "stop_server"
    /\ IF clients[c].response # Message(STOP_RESPONSE)
       THEN /\ clients' = [clients EXCEPT ![c].pc = "refused"]
            /\ UNCHANGED port_files
       ELSE IF clients[c].port \in port_files
       THEN /\ port_files' = port_files \ {clients[c].port}
            /\ clients' = [clients EXCEPT ![c].pc = "done"]
       ELSE /\ clients' = [clients EXCEPT ![c].pc = "failed"]
            /\ UNCHANGED port_files
    /\ UNCHANGED <<monitors, workspace_name, pending, pc, pass_i,
                   has_broken_monitors, src, dst, wdir, fs_events, last,
                   last_set_name, live, inflight, workspaces, workspace_client,
                   workspace_dirs>>

\* ------------------------------------------------------ workspace client
\* what a step of the workspace client leaves alone
Daemon == <<monitors, workspace_name, pc, pass_i, has_broken_monitors,
            src, dst, wdir, fs_events, last, last_set_name,
            port_files, live, clients, workspace_dirs>>

\* communicate, the writing end: the daemon listens and nobody else waits
CanSend ==
    /\ pc \in {"loop", "pass"}
    /\ pending < MaxPending
    /\ inflight = NoInflight

Send(request) ==
    /\ pending' = pending + 1
    /\ inflight' = [at |-> pending + 1, request |-> request]

\* the command of the client has returned: what it was and how it ended
Returned(ok, err, msg) ==
    [IdleWorkspaceClient EXCEPT !.op = workspace_client.op,
                                !.name = workspace_client.name,
                                !.force = workspace_client.force,
                                !.response = workspace_client.response,
                                !.ok = ok, !.err = err, !.result = msg]

\* `circpush workspace save`: save_workspace asks for all the monitors
StartSave ==
    /\ workspace_client.pc = "idle"
    /\ CanSend
    /\ \E name \in SaveNames, desc \in Descs, force \in BOOLEAN :
        workspace_client' =
            [IdleWorkspaceClient EXCEPT !.pc = "waiting", !.op = "save",
                                        !.name = name, !.desc = desc,
                                        !.force = force]
    /\ Send([type |-> "ViewLink", number |-> 0])
    /\ UNCHANGED workspaces
    /\ UNCHANGED Daemon

\* save_workspace with the response: get_monitor_list parses the monitors,
\* then the workspace is saved under the name
FinishSave ==
    /\ workspace_client.pc = "answered"
    /\ workspace_client.op = "save"
    /\ IF workspace_client.response.type # "Links"
       THEN /\ workspace_client' =
                    Returned(FALSE, "",
                             IF workspace_client.response.type = "ErrorMessage"
                             THEN workspace_client.response.msg
                             ELSE "ERROR: Could not retrieve link(s)")
            /\ UNCHANGED workspaces
       ELSE \E monitor_list \in from_str(workspace_client.response.json) :
                LET r == save_workspace(workspace_client.name, workspace_client.desc,
                                        workspace_client.force, monitor_list,
                                        workspaces)
                IN  /\ workspaces' = r.store
                    /\ workspace_client' = Returned(r.ok, r.err, r.msg)
    /\ UNCHANGED <<pending, inflight>>
    /\ UNCHANGED Daemon

\* `circpush workspace load`: load_workspace first stops every monitor
StartLoad ==
    /\ workspace_client.pc = "idle"
    /\ CanSend
    /\ \E name \in WorkspaceNames :
        workspace_client' =
            [IdleWorkspaceClient EXCEPT !.pc = "waiting", !.op = "load",
                                        !.step = "stop", !.name = name]
    /\ Send([type |-> "StopLink", number |-> 0])
    /\ UNCHANGED workspaces
    /\ UNCHANGED Daemon

\* load_workspace sends its next request: a StartLink for the first monitor
\* not started yet, or SetWorkspaceName after the last
LoadSend(todo) ==
    /\ CanSend
    /\ Send(next_request(todo, workspace_client.name))
    /\ workspace_client' =
            [workspace_client EXCEPT
                !.pc = "waiting",
                !.step = IF todo = <<>> THEN "name" ELSE "start",
                !.todo = IF todo = <<>> THEN <<>> ELSE Tail(todo)]

\* load_workspace returns, or panics in an `expect`
LoadEnds(how, ok, msg) ==
    /\ workspace_client' = [Returned(ok, "", msg) EXCEPT !.pc = how]
    /\ UNCHANGED <<pending, inflight>>

\* load_workspace with a response: after the StopLink it reads the workspace
\* file and starts on its monitors, after a StartLink it goes on to the next
\* monitor, after the SetWorkspaceName it is done
ContinueLoad ==
    /\ workspace_client.pc = "answered"
    /\ workspace_client.op = "load"
    /\ LET wc == workspace_client
       IN  CASE wc.step = "stop" ->
                  IF wc.response.type # "Message"
                  THEN LoadEnds("idle", FALSE, "ERROR: Could not load the workspace")
                  ELSE \E w \in from_name(wc.name, workspaces) :
                        IF w.err = "UnexpectedFormat"
                        THEN LoadEnds("idle", FALSE,
                                      "Could not parse the format of workspace '"
                                      \o wc.name \o "'")
                        ELSE IF w.err = "DoesNotExist"
                        THEN LoadEnds("idle", FALSE, "Workspace '" \o wc.name
                                                     \o "' does not exist")
                        ELSE LoadSend(w.monitors)
             [] wc.step = "start" ->
                  IF wc.response.type = "Message"
                  THEN LoadSend(wc.todo)
                  ELSE LoadEnds("failed", FALSE, "")
             [] OTHER ->
                  IF wc.response = NoData
                  THEN LoadEnds("idle", TRUE, "Started workspace '" \o wc.name \o "'")
                  ELSE LoadEnds("failed", FALSE, "")
    /\ UNCHANGED workspaces
    /\ UNCHANGED Daemon

\* `circpush start` and `circpush workspace current`: start_monitor and
\* get_current_workspace send their request
StartCommand ==
    /\ workspace_client.pc = "idle"
    /\ CanSend
    /\ \E request \in Requests :
        /\ \/ /\ request.type = "StartLink" /\ Len(monitors) < MaxMonitors
              /\ ValidGlob(request.read_pattern)
           \/ request.type = "ViewWorkspaceName"
        /\ Send(request)
    /\ workspace_client' =
            [IdleWorkspaceClient EXCEPT !.pc = "waiting", !.op = "command"]
    /\ UNCHANGED workspaces
    /\ UNCHANGED Daemon

\* start_monitor and get_current_workspace return with the response
FinishCommand ==
    /\ workspace_client.pc = "answered"
    /\ workspace_client.op = "command"
    /\ workspace_client' =
            Returned(workspace_client.response.type = "Message", "",
                     IF workspace_client.response.type = "Message"
                     THEN workspace_client.response.msg
                     ELSE "ERROR")
    /\ UNCHANGED <<pending, inflight, workspaces>>
    /\ UNCHANGED Daemon

\* `circpush workspace list`
ListWorkspaces ==
    /\ workspace_client.pc = "idle"
    /\ \E entries \in Orders(read_dir(workspaces, workspace_dirs)) :
        workspace_client' =
            [IdleWorkspaceClient EXCEPT !.op = "list", !.ok = TRUE,
                                        !.result = list_workspaces(entries)]
    /\ UNCHANGED <<pending, inflight, workspaces>>
    /\ UNCHANGED Daemon

\* `circpush workspace rename`
RenameWorkspace ==
    /\ workspace_client.pc = "idle"
    /\ \E orig \in StoreNames, new \in StoreNames :
        LET r == rename_workspace(orig, new, workspaces)
        IN  /\ workspaces' = r.store
            /\ workspace_client' =
                    [IdleWorkspaceClient EXCEPT !.op = "rename", !.name = orig,
                                                !.ok = r.ok, !.result = r.msg]
    /\ UNCHANGED <<pending, inflight>>
    /\ UNCHANGED Daemon

\* `circpush workspace delete`
DeleteWorkspace ==
    /\ workspace_client.pc = "idle"
    /\ \E name \in StoreNames :
        LET r == delete_workspace(name, workspaces)
        IN  /\ workspaces' = r.store
            /\ workspace_client' =
                    [IdleWorkspaceClient EXCEPT !.op = "delete", !.name = name,
                                                !.ok = r.ok, !.result = r.msg]
    /\ UNCHANGED <<pending, inflight>>
    /\ UNCHANGED Daemon

\* --------------------------------------------------------- port registry
\* the daemons besides the one this model follows step by step are reduced
\* to the ports they listen on
Others == <<monitors, workspace_name, pending, pc, pass_i, has_broken_monitors,
            src, dst, wdir, fs_events, last, last_set_name, inflight,
            workspaces, workspace_client, workspace_dirs>>

\* a daemon starts or stops: the commands that are sweeping, or have swept
\* and not yet acted, are no longer undisturbed
Disturb(cs) ==
    [c \in Clients |->
        IF cs[c].pc \in {"sweep", "swept"}
        THEN [cs[c] EXCEPT !.undisturbed = FALSE] ELSE cs[c]]

\* (variant of bind_socket that creates the port file before it binds)
RunServer_file_first(c, p) ==
    /\ clients[c].pc = "swept" /\ clients[c].op = "run_server"
    /\ IF clients[c].port # 0
       THEN /\ clients' = [clients EXCEPT
                    ![c].pc = "refused",
                    ![c].response = ErrorMessage("Server already running")]
            /\ UNCHANGED <<live, port_files>>
       ELSE IF p \in port_files
       THEN /\ clients' = [clients EXCEPT ![c].pc = "failed", ![c].port = p]
            /\ UNCHANGED <<live, port_files>>
       ELSE IF p \in live
       THEN /\ clients' = [clients EXCEPT
                    ![c].pc = "refused", ![c].port = p,
                    ![c].response = ErrorMessage("Could not bind to port")]
            /\ port_files' = port_files \cup {p}
            /\ UNCHANGED live
       ELSE /\ live' = live \cup {p}
            /\ port_files' = port_files \cup {p}
            /\ clients' = [Disturb(clients) EXCEPT ![c] = IdleClient]
    /\ UNCHANGED Others

\* `circpush server run` after is_server_running has swept the registry:
\* with an active port it returns "Server already running"; otherwise
\* run_server calls bind_socket, which returns "Could not bind to port" if
\* the port is taken, and else create_new the port file, which panics if the
\* file exists; the process then is a daemon
RunServer(c, p) ==
    /\ clients[c].pc = "swept" /\ clients[c].op = "run_server"
    /\ IF clients[c].port # 0
       THEN /\ clients' = [clients EXCEPT
                    ![c].pc = "refused",
                    ![c].response = ErrorMessage("Server already running")]
            /\ UNCHANGED <<live, port_files>>
       ELSE IF p \in live
       THEN /\ clients' = [clients EXCEPT
                    ![c].pc = "refused", ![c].port = p,
                    ![c].response = ErrorMessage("Could not bind to port")]
            /\ UNCHANGED <<live, port_files>>
       ELSE IF p \in port_files
       THEN /\ clients' = [clients EXCEPT ![c].pc = "failed", ![c].port = p]
            /\ UNCHANGED <<live, port_files>>
       ELSE /\ live' = live \cup {p}
            /\ port_files' = port_files \cup {p}
            /\ clients' = [Disturb(clients) EXCEPT ![c] = IdleClient]
    /\ UNCHANGED Others

\* `circpush server start` after is_server_running: with an active port it
\* returns "Server already running"; otherwise start_server spawns `circpush
\* server run`, which begins with a sweep of its own
StartServer(c) ==
    /\ clients[c].pc = "swept" /\ clients[c].op = "start_server"
    /\ IF clients[c].port # 0
       THEN clients' = [clients EXCEPT
                    ![c].pc = "refused",
                    ![c].response = ErrorMessage("Server already running")]
       ELSE \E order \in Orders(port_files) :
                clients' = [clients EXCEPT ![c] =
                    [IdleClient EXCEPT !.pc = "sweep", !.op = "run_server",
                                       !.todo = order]]
    /\ UNCHANGED <<live, port_files>>
    /\ UNCHANGED Others

\* a daemon dies on the panic of handle_connection, or is killed: nobody
\* removes its port file
DaemonDies(p) ==
    /\ p \in live
    /\ live' = live \ {p}
    /\ clients' = Disturb(clients)
    /\ UNCHANGED port_files
    /\ UNCHANGED Others

\* get_port calls clean_ports, which reads the port directory
StartSweep(c) ==
    /\ clients[c].pc = "idle"
    /\ \E op \in {"get_port", "stop_server", "run_server", "start_server"},
          order \in Orders(port_files) :
        clients' = [clients EXCEPT ![c] =
                        [IdleClient EXCEPT !.pc = "sweep", !.op = op, !.todo = order]]
    /\ UNCHANGED <<port_files, live>>
    /\ UNCHANGED Others

\* one iteration of the loop of clean_ports: ping the port; a daemon that
\* answers keeps its file, one that does not answer within the read timeout
\* makes communicate panic, and a port nobody listens on loses its file
\* (remove_port panics if the file is not there)
PingEntry(c) ==
    /\ clients[c].pc = "sweep"
    /\ clients[c].todo # <<>>
    /\ LET p == Head(clients[c].todo)
           rest == Tail(clients[c].todo)
       IN  IF p \in live
           THEN /\ \/ clients' = [clients EXCEPT
                            ![c].todo = rest,
                            ![c].active_ports = Append(@, p)]
                   \/ clients' = [clients EXCEPT ![c].pc = "failed"]
                /\ UNCHANGED port_files
           ELSE IF p \in port_files
           THEN /\ port_files' = port_files \ {p}
                /\ clients' = [clients EXCEPT ![c].todo = rest]
           ELSE /\ clients' = [clients EXCEPT ![c].pc = "failed"]
                /\ UNCHANGED port_files
    /\ UNCHANGED live
    /\ UNCHANGED Others

\* get_port after clean_ports: 0 without an active port, else the first
SweepDone(c) ==
    /\ clients[c].pc = "sweep"
    /\ clients[c].todo = <<>>
    /\ clients' = [clients EXCEPT
            ![c].pc = "swept",
            ![c].port = IF clients[c].active_ports = <<>> THEN 0
                        ELSE clients[c].active_ports[1]]
    /\ UNCHANGED <<port_files, live>>
    /\ UNCHANGED Others

\* stop_server with one of the other daemons: communicate fails if nobody
\* listens on the port; otherwise the daemon handles Shutdown and exits, and
\* the client has the answer unless its read timed out
StopServerShutdown(c) ==
    /\ clients[c].pc = "swept" /\ clients[c].op = "stop_server"
    /\ IF clients[c].port \in live
       THEN /\ live' = live \ {clients[c].port}
            /\ \E got \in {"answered", "failed"} :
                clients' = [Disturb(clients) EXCEPT
                                ![c].pc = got,
                                ![c].response = Message(STOP_RESPONSE)]
       ELSE /\ clients' = [clients EXCEPT ![c].pc = "refused"]
            /\ UNCHANGED live
    /\ UNCHANGED port_files
    /\ UNCHANGED Others

\* the command of the client ends
ClientExit(c) ==
    /\ \/ clients[c].pc \in {"done", "refused", "failed"}
       \/ clients[c].pc = "swept" /\ clients[c].op = "get_port"
    /\ clients' = [clients EXCEPT ![c] = IdleClient]
    /\ UNCHANGED <<port_files, live>>
    /\ UNCHANGED Others

\* ----------------------------------------------------------------- daemon
\* (variant that accepts a connection in the middle of a pass)
HandleConnection_mid_pass ==
    /\ pc \in {"loop", "pass"}
    /\ pending > 0
    /\ \E request \in Requests :
        /\ request.type = "StartLink" => Len(monitors) < MaxMonitors
        /\ inflight.at = 1 => request = inflight.request
        /\ LET r == handle_connection(request, monitors, workspace_name)
           IN  /\ monitors' = r.monitors
               /\ workspace_name' = r.workspace_name
               /\ pc' = IF r.keep_running THEN pc ELSE "done"
               /\ last' = Observed("request", request, r.response, 0, "", {}, {})
               /\ last_set_name' = IF request.type = "SetWorkspaceName"
                                   THEN request.name ELSE last_set_name
               /\ live' = IF r.keep_running THEN live ELSE live \ {DaemonPort}
               /\ clients' = [c \in Clients |->
                                Receive(clients[c], r.response, r.keep_running)]
               /\ workspace_client' =
                        Receive(workspace_client, r.response, r.keep_running)
    /\ pending' = pending - 1
    /\ inflight' = IF inflight.at > 1 THEN [inflight EXCEPT !.at = @ - 1]
                   ELSE NoInflight
    /\ UNCHANGED <<pass_i, has_broken_monitors, src, dst, wdir, fs_events,
                   port_files, workspaces, workspace_dirs>>

\* run_server, Ok(stream) arm: accept the oldest connection, read its request
\* and handle it
HandleConnection ==
    /\ pc = "loop"
    /\ pending > 0
    /\ \E request \in Requests :
        /\ request.type = "StartLink" => Len(monitors) < MaxMonitors
        /\ inflight.at = 1 => request = inflight.request
        /\ LET r == handle_connection(request, monitors, workspace_name)
           IN  /\ monitors' = r.monitors
               /\ workspace_name' = r.workspace_name
               /\ pc' = IF r.keep_running THEN "loop" ELSE "done"
               /\ last' = Observed("request", request, r.response, 0, "", {}, {})
               /\ last_set_name' = IF request.type = "SetWorkspaceName"
                                   THEN request.name ELSE last_set_name
               /\ live' = IF r.keep_running THEN live ELSE live \ {DaemonPort}
               /\ clients' = [c \in Clients |->
                                Receive(clients[c], r.response, r.keep_running)]
               /\ workspace_client' =
                        Receive(workspace_client, r.response, r.keep_running)
    /\ pending' = pending - 1
    /\ inflight' = IF inflight.at > 1 THEN [inflight EXCEPT !.at = @ - 1]
                   ELSE NoInflight
    /\ UNCHANGED <<pass_i, has_broken_monitors, src, dst, wdir, fs_events,
                   port_files, workspaces, workspace_dirs>>

\* run_server, Ok(stream) arm, for a connection whose bytes are no Request
\* or that is closed before any arrive: Request::deserialize returns Err and
\* `expect("Unable to deserialize the request")` panics in the only thread
\* of the daemon
HandleMalformed ==
    /\ pc = "loop"
    /\ pending > 0
    /\ inflight.at # 1
    /\ pc' = "panicked"
    /\ pending' = pending - 1
    /\ live' = live \ {DaemonPort}
    /\ last' = Quiet("malformed")
    /\ inflight' = IF inflight.at > 1 THEN [inflight EXCEPT !.at = @ - 1]
                   ELSE NoInflight
    /\ clients' = [c \in Clients |-> Receive(clients[c], NoData, FALSE)]
    /\ workspace_client' = Receive(workspace_client, NoData, FALSE)
    /\ UNCHANGED <<monitors, workspace_name, pass_i, has_broken_monitors,
                   src, dst, wdir, fs_events, last_set_name, port_files,
                   workspaces, workspace_dirs>>

\* (variant that starts a pass although a connection is waiting)
BeginPass_unguarded ==
    /\ pc = "loop"
    /\ pc' = "pass"
    /\ pass_i' = 1
    /\ has_broken_monitors' = FALSE
    /\ last' = Quiet("beginpass")
    /\ UNCHANGED <<monitors, workspace_name, pending, src, dst, wdir, fs_events,
                   last_set_name>>
    /\ UNCHANGED outside

\* run_server, no-connection arm: start the loop over the monitors
BeginPass ==
    /\ pc = "loop"
    /\ pending = 0
    /\ pc' = "pass"
    /\ pass_i' = 1
    /\ has_broken_monitors' = FALSE
    /\ last' = Quiet("beginpass")
    /\ UNCHANGED <<monitors, workspace_name, pending, src, dst, wdir, fs_events,
                   last_set_name>>
    /\ UNCHANGED outside

\* one iteration of `for monitor in &mut state.monitors`
UpdateLinksStep ==
    /\ pc = "pass"
    /\ ~has_broken_monitors
    /\ pass_i <= Len(monitors)
    /\ \E o \in update_links(monitors[pass_i], src, dst, wdir) :
        /\ monitors' = [monitors EXCEPT ![pass_i].links = o.links]
        /\ dst' = o.dst
        /\ wdir' = o.wdir
        /\ has_broken_monitors' = (o.res # "Ok")
        /\ pass_i' = IF o.res = "Ok" THEN pass_i + 1 ELSE pass_i
        /\ last' = Observed("update", NoRequest, NoData, pass_i, o.res,
                            o.copied, o.deleted)
    /\ UNCHANGED <<workspace_name, pending, pc, src, fs_events, last_set_name>>
    /\ UNCHANGED outside

\* the end of the no-connection arm: drop the monitors without write directory
EndPass ==
    /\ pc = "pass"
    /\ has_broken_monitors \/ pass_i > Len(monitors)
    /\ monitors' = IF has_broken_monitors THEN retain(monitors, wdir) ELSE monitors
    /\ pc' = "loop"
    /\ last' = Quiet("endpass")
    /\ UNCHANGED <<workspace_name, pending, pass_i, has_broken_monitors,
                   src, dst, wdir, fs_events, last_set_name>>
    /\ UNCHANGED outside

\* ------------------------------------------------------------ environment
FsEvent ==
    /\ pc # "done"
    /\ fs_events < MaxFsEvents
    /\ fs_events' = fs_events + 1
    /\ last' = Quiet("env")
    /\ UNCHANGED <<monitors, workspace_name, pending, pc, pass_i,
                   has_broken_monitors, last_set_name>>
    /\ UNCHANGED outside

\* an editor writes a source file (or touches it)
WriteSource ==
    /\ FsEvent
    /\ \E p \in SrcPaths, c \in Contents, t \in Times :
        src' = [src EXCEPT ![p] = File(c, t)]
    /\ UNCHANGED <<dst, wdir>>

\* a source file is deleted
RemoveSource ==
    /\ FsEvent
    /\ \E p \in SrcPaths : src[p].exists /\ src' = [src EXCEPT ![p] = NoFile]
    /\ UNCHANGED <<dst, wdir>>

\* something else writes a destination file
WriteDestination ==
    /\ FsEvent
    /\ \E p \in DstPaths, c \in Contents, t \in Times :
        /\ wdir[p[1]]
        /\ dst' = [dst EXCEPT ![p] = File(c, t)]
    /\ UNCHANGED <<src, wdir>>

\* something else deletes a destination file
RemoveDestination ==
    /\ FsEvent
    /\ \E p \in DstPaths : dst[p].exists /\ dst' = [dst EXCEPT ![p] = NoFile]
    /\ UNCHANGED <<src, wdir>>

\* a write directory disappears with everything in it (the board is unplugged)
RemoveWriteDirectory ==
    /\ FsEvent
    /\ \E w \in WriteDirs :
        /\ wdir[w]
        /\ wdir' = [wdir EXCEPT ![w] = FALSE]
        /\ dst' = [p \in DOMAIN dst |-> IF p[1] = w THEN NoFile ELSE dst[p]]
    /\ UNCHANGED src

\* ---------------------------------------------------------- specifications
\* The daemon serving its clients over a file system nobody else touches.
NextServer ==
    \/ Connect
    \/ HandleConnection
    \/ BeginPass
    \/ UpdateLinksStep
    \/ EndPass

SpecServer == Init /\ [][NextServer]_vars

\* The same daemon started while write directory W2 is not there (a board
\* that is not plugged in).
InitUnplugged ==
    /\ monitors = <<>>
    /\ workspace_name = ""
    /\ pending = 0
    /\ pc = "loop"
    /\ pass_i = 1
    /\ has_broken_monitors = FALSE
    /\ src = [p \in Bases \X Names |-> IF p[1] = "B1" THEN File("c1", 0) ELSE NoFile]
    /\ dst = [p \in WriteDirs \X Names |-> NoFile]
    /\ wdir = [w \in WriteDirs |-> w # "W2"]
    /\ fs_events = 0
    /\ last = Quiet("init")
    /\ last_set_name = ""
    /\ port_files = {DaemonPort}
    /\ live = {DaemonPort}
    /\ clients = [c \in Clients |-> IdleClient]
    /\ inflight = NoInflight
    /\ workspaces = [w \in WorkspaceNames |-> NoWorkspace]
    /\ workspace_client = IdleWorkspaceClient
    /\ workspace_dirs = {}

SpecUnplugged == InitUnplugged /\ [][NextServer]_vars

\* The same with clients that also send what is not a request.
NextClientError ==
    \/ Connect
    \/ HandleConnection
    \/ HandleMalformed
    \/ BeginPass
    \/ UpdateLinksStep
    \/ EndPass

SpecClientError == Init /\ [][NextClientError]_vars

\* The tables clients have built by StartLink requests before the file system
\* starts to change: every monitor is new, with an empty link set.
MirrorTables ==
    LET M1 == FileMonitor("*", "W1", "B1")
        M2 == FileMonitor("f1", "W1", "B2")
        M3 == FileMonitor("[", "W2", "B1")
    IN  { <<M1>>, <<M1, M2>>, <<M3, M1>>, <<M1, M3>> }

InitMirror ==
    /\ monitors \in MirrorTables
    /\ workspace_name = ""
    /\ pending = 0
    /\ pc = "loop"
    /\ pass_i = 1
    /\ has_broken_monitors = FALSE
    /\ src \in InitSources
    /\ dst = [p \in WriteDirs \X Names |-> NoFile]
    /\ wdir = [w \in WriteDirs |-> TRUE]
    /\ fs_events = 0
    /\ last = Quiet("init")
    /\ last_set_name = ""
    /\ port_files = {DaemonPort}
    /\ live = {DaemonPort}
    /\ clients = [c \in Clients |-> IdleClient]
    /\ inflight = NoInflight
    /\ workspaces = [w \in WorkspaceNames |-> NoWorkspace]
    /\ workspace_client = IdleWorkspaceClient
    /\ workspace_dirs = {}

\* `circpush server stop` has found the port of a daemon with get_port; the
\* daemon holds a table its clients have built, loaded from workspace w1 or
\* not.
InitShutdown ==
    /\ monitors \in MirrorTables
    /\ workspace_name \in {"", "w1"}
    /\ pending = 0
    /\ pc = "loop"
    /\ pass_i = 1
    /\ has_broken_monitors = FALSE
    /\ src \in InitSources
    /\ dst = [p \in WriteDirs \X Names |-> NoFile]
    /\ wdir = [w \in WriteDirs |-> TRUE]
    /\ fs_events = 0
    /\ last = Quiet("init")
    /\ last_set_name = workspace_name
    /\ port_files = {DaemonPort}
    /\ live = {DaemonPort}
    /\ inflight = NoInflight
    /\ workspaces = [w \in WorkspaceNames |-> NoWorkspace]
    /\ workspace_client = IdleWorkspaceClient
    /\ workspace_dirs = {}
    /\ clients = [c \in Clients |->
                    IF c = "c1"
                    THEN [IdleClient EXCEPT !.pc = "swept", !.op = "stop_server",
                                            !.port = DaemonPort,
                                            !.active_ports = <<DaemonPort>>]
                    ELSE IdleClient]

\* The daemon reconciling while its only client stops it.
NextShutdown ==
    \/ HandleConnection
    \/ BeginPass
    \/ UpdateLinksStep
    \/ EndPass
    \/ \E c \in Clients : StopServerConnect(c)
    \/ \E c \in Clients : ReadTimeout(c)
    \/ \E c \in Clients : RemovePortFile(c)

SpecShutdown == InitShutdown /\ [][NextShutdown]_vars

\* The daemon with one client that starts monitors and saves and loads
\* workspaces.
NextWorkspace ==
    \/ HandleConnection
    \/ BeginPass
    \/ UpdateLinksStep
    \/ EndPass
    \/ StartSave
    \/ FinishSave
    \/ StartLoad
    \/ ContinueLoad
    \/ StartCommand
    \/ FinishCommand

\* run_server before its first loop iteration, B1 holding its two files and
\* the workspace directory empty
InitWorkspace ==
    /\ monitors = <<>>
    /\ workspace_name = ""
    /\ pending = 0
    /\ pc = "loop"
    /\ pass_i = 1
    /\ has_broken_monitors = FALSE
    /\ src = [p \in Bases \X Names |-> IF p[1] = "B1" THEN File("c1", 0) ELSE NoFile]
    /\ dst = [p \in WriteDirs \X Names |-> NoFile]
    /\ wdir = [w \in WriteDirs |-> TRUE]
    /\ fs_events = 0
    /\ last = Quiet("init")
    /\ last_set_name = ""
    /\ port_files = {DaemonPort}
    /\ live = {DaemonPort}
    /\ clients = [c \in Clients |-> IdleClient]
    /\ inflight = NoInflight
    /\ workspaces = [w \in WorkspaceNames |-> NoWorkspace]
    /\ workspace_client = IdleWorkspaceClient
    /\ workspace_dirs = {}

SpecWorkspace == InitWorkspace /\ [][NextWorkspace]_vars

\* The daemon with a client that loads workspaces while other clients run
\* `circpush link start` and `circpush link stop`: workspace w1 has been saved
\* with one monitor, the file of w2 is missing or blank.
HandleLoadOrLink ==
    /\ HandleConnection
    /\ inflight.at = 1 \/ last'.req.type \in {"StartLink", "StopLink"}

NextLoadRace ==
    \/ Connect
    \/ HandleLoadOrLink
    \/ BeginPass
    \/ UpdateLinksStep
    \/ EndPass
    \/ StartLoad
    \/ ContinueLoad

InitLoadRace ==
    /\ monitors = <<>>
    /\ workspace_name = ""
    /\ pending = 0
    /\ pc = "loop"
    /\ pass_i = 1
    /\ has_broken_monitors = FALSE
    /\ src = [p \in Bases \X Names |-> IF p[1] = "B1" THEN File("c1", 0) ELSE NoFile]
    /\ dst = [p \in WriteDirs \X Names |-> NoFile]
    /\ wdir = [w \in WriteDirs |-> TRUE]
    /\ fs_events = 0
    /\ last = Quiet("init")
    /\ last_set_name = ""
    /\ port_files = {DaemonPort}
    /\ live = {DaemonPort}
    /\ clients = [c \in Clients |-> IdleClient]
    /\ inflight = NoInflight
    /\ \E other \in {NoWorkspace, Blank} :
        workspaces =
            [w \in WorkspaceNames |->
                IF w = "w1"
                THEN save_as_filepath(
                        Workspace("d1", <<FileMonitor("*", "W1", "B1")>>))
                ELSE other]
    /\ workspace_client = IdleWorkspaceClient
    /\ workspace_dirs = {}

SpecLoadRace == InitLoadRace /\ [][NextLoadRace]_vars

\* The daemon with one client that loads and saves workspaces and renames
\* and deletes their files; workspace w1 has been saved with one monitor.
NextNamed ==
    \/ HandleConnection
    \/ BeginPass
    \/ UpdateLinksStep
    \/ EndPass
    \/ StartLoad
    \/ ContinueLoad
    \/ StartSave
    \/ FinishSave
    \/ RenameWorkspace
    \/ DeleteWorkspace

InitNamed ==
    /\ monitors = <<>>
    /\ workspace_name = ""
    /\ pending = 0
    /\ pc = "loop"
    /\ pass_i = 1
    /\ has_broken_monitors = FALSE
    /\ src = [p \in Bases \X Names |-> IF p[1] = "B1" THEN File("c1", 0) ELSE NoFile]
    /\ dst = [p \in WriteDirs \X Names |-> NoFile]
    /\ wdir = [w \in WriteDirs |-> TRUE]
    /\ fs_events = 0
    /\ last = Quiet("init")
    /\ last_set_name = ""
    /\ port_files = {DaemonPort}
    /\ live = {DaemonPort}
    /\ clients = [c \in Clients |-> IdleClient]
    /\ inflight = NoInflight
    /\ workspaces =
            [w \in StoreNames |->
                IF w = "w1"
                THEN save_as_filepath(
                        Workspace("d1", <<FileMonitor("*", "W1", "B1")>>))
                ELSE NoWorkspace]
    /\ workspace_client = IdleWorkspaceClient
    /\ workspace_dirs = {}

SpecNamed == InitNamed /\ [][NextNamed]_vars

\* The port directory of a host where no daemon runs yet.
InitRegistry ==
    /\ monitors = <<>>
    /\ workspace_name = ""
    /\ pending = 0
    /\ pc = "done"
    /\ pass_i = 1
    /\ has_broken_monitors = FALSE
    /\ src = [p \in Bases \X Names |-> NoFile]
    /\ dst = [p \in WriteDirs \X Names |-> NoFile]
    /\ wdir = [w \in WriteDirs |-> TRUE]
    /\ fs_events = 0
    /\ last = Quiet("init")
    /\ last_set_name = ""
    /\ port_files = {}
    /\ live = {}
    /\ clients = [c \in Clients |-> IdleClient]
    /\ inflight = NoInflight
    /\ workspaces = [w \in WorkspaceNames |-> NoWorkspace]
    /\ workspace_client = IdleWorkspaceClient
    /\ workspace_dirs = {}

\* Daemons come and go while clients look for the port and stop daemons.
NextRegistry ==
    \/ \E c \in Clients, p \in Ports : RunServer(c, p)
    \/ \E c \in Clients : StartServer(c)
    \/ \E p \in Ports : DaemonDies(p)
    \/ \E c \in Clients : StartSweep(c)
    \/ \E c \in Clients : PingEntry(c)
    \/ \E c \in Clients : SweepDone(c)
    \/ \E c \in Clients : StopServerShutdown(c)
    \/ \E c \in Clients : RemovePortFile(c)
    \/ \E c \in Clients : ClientExit(c)

SpecRegistry == InitRegistry /\ [][NextRegistry]_vars

\* The workspace files users have saved from the tables their clients built,
\* and the sub-directories they have made; no daemon runs.
StoredWorkspaces ==
    {NoWorkspace}
    \cup {save_as_filepath(Workspace(d, t)) : d \in Descs, t \in MirrorTables}

InitStore ==
    /\ monitors = <<>>
    /\ workspace_name = ""
    /\ pending = 0
    /\ pc = "done"
    /\ pass_i = 1
    /\ has_broken_monitors = FALSE
    /\ src = [p \in Bases \X Names |-> NoFile]
    /\ dst = [p \in WriteDirs \X Names |-> NoFile]
    /\ wdir = [w \in WriteDirs |-> TRUE]
    /\ fs_events = 0
    /\ last = Quiet("init")
    /\ last_set_name = ""
    /\ port_files = {}
    /\ live = {}
    /\ clients = [c \in Clients |-> IdleClient]
    /\ inflight = NoInflight
    /\ workspaces \in [StoreNames -> StoredWorkspaces]
    /\ workspace_client = IdleWorkspaceClient
    /\ workspace_dirs \in SUBSET SubDirs

\* The commands that work on the workspace directory alone.
NextStore ==
    \/ ListWorkspaces
    \/ RenameWorkspace
    \/ DeleteWorkspace

SpecStore == InitStore /\ [][NextStore]_vars

\* The daemon reconciling while the file system changes under it.
NextMirror ==
    \/ BeginPass
    \/ UpdateLinksStep
    \/ EndPass
    \/ WriteSource
    \/ RemoveSource
    \/ WriteDestination
    \/ RemoveDestination
    \/ RemoveWriteDirectory

SpecMirror == InitMirror /\ [][NextMirror]_vars

\* An editor saves source files while the daemon reconciles one monitor: each
\* save gives the file a later mtime, and a save can fall between the two
\* reads FileLink::update makes of the source.
ModifySource ==
    /\ FsEvent
    /\ \E p \in SrcPaths, c \in Contents, t \in Times :
        /\ src[p].exists => t > src[p].mtime
        /\ src' = [src EXCEPT ![p] = File(c, t)]
    /\ UNCHANGED <<dst, wdir>>

\* update_links on monitors[pass_i] with a save of the source of link l after
\* fs::copy has read it and before get_file_mtime reads its time
UpdateLinksDuringWrite ==
    /\ pc = "pass"
    /\ ~has_broken_monitors
    /\ pass_i <= Len(monitors)
    /\ fs_events < MaxFsEvents
    /\ \E o \in update_links(monitors[pass_i], src, dst, wdir) :
        \E l \in o.copied, c \in Contents, t \in Times :
            /\ o.res = "Ok"
            /\ t > src[l.source].mtime
            /\ src' = [src EXCEPT ![l.source] = File(c, t)]
            /\ dst' = [o.dst EXCEPT
                          ![l.destination] = update_interleaved(l, src, src')]
            /\ monitors' = [monitors EXCEPT ![pass_i].links = o.links]
            /\ wdir' = o.wdir
            /\ last' = Observed("update", NoRequest, NoData, pass_i, o.res,
                                o.copied, o.deleted)
    /\ has_broken_monitors' = FALSE
    /\ pass_i' = pass_i + 1
    /\ fs_events' = fs_events + 1
    /\ UNCHANGED <<workspace_name, pending, pc, last_set_name>>
    /\ UNCHANGED outside

InitRace ==
    /\ InitMirror
    /\ monitors = <<FileMonitor("*", "W1", "B1")>>

NextRace ==
    \/ BeginPass
    \/ UpdateLinksStep
    \/ UpdateLinksDuringWrite
    \/ EndPass
    \/ ModifySource

SpecRace == InitRace /\ [][NextRace]_vars

\* Two monitors that write the file f1 of W1, from B1 and from B2, in either
\* order of the table; the destination is absent or a file left there
\* empty, and nothing but the daemon touches the files.
SharedTables ==
    LET M1 == FileMonitor("*", "W1", "B1")
        M2 == FileMonitor("f1", "W1", "B2")
    IN  { <<M1, M2>>, <<M2, M1>> }

InitShared ==
    /\ monitors \in SharedTables
    /\ workspace_name = ""
    /\ pending = 0
    /\ pc = "loop"
    /\ pass_i = 1
    /\ has_broken_monitors = FALSE
    /\ \E t1 \in Times, t2 \in Times :
        src = [p \in Bases \X Names |->
                 IF p = <<"B1", "f1">> THEN File("c1", t1)
                 ELSE IF p = <<"B2", "f1">> THEN File("c2", t2)
                 ELSE NoFile]
    /\ \E d \in {NoFile} \cup {File("", t) : t \in Times} :
        dst = [p \in WriteDirs \X Names |->
                 IF p = <<"W1", "f1">> THEN d ELSE NoFile]
    /\ wdir = [w \in WriteDirs |-> TRUE]
    /\ fs_events = 0
    /\ last = Quiet("init")
    /\ last_set_name = ""
    /\ port_files = {DaemonPort}
    /\ live = {DaemonPort}
    /\ clients = [c \in Clients |-> IdleClient]
    /\ inflight = NoInflight
    /\ workspaces = [w \in WorkspaceNames |-> NoWorkspace]
    /\ workspace_client = IdleWorkspaceClient
    /\ workspace_dirs = {}

NextShared ==
    \/ BeginPass
    \/ UpdateLinksStep
    \/ EndPass

SpecShared == InitShared /\ [][NextShared]_vars

\* The same for a table that a client has loaded from workspace w1.
InitLoaded ==
    /\ monitors \in MirrorTables
    /\ workspace_name = "w1"
    /\ pending = 0
    /\ pc = "loop"
    /\ pass_i = 1
    /\ has_broken_monitors = FALSE
    /\ src \in InitSources
    /\ dst = [p \in WriteDirs \X Names |-> NoFile]
    /\ wdir = [w \in WriteDirs |-> TRUE]
    /\ fs_events = 0
    /\ last = Quiet("init")
    /\ last_set_name = "w1"
    /\ port_files = {DaemonPort}
    /\ live = {DaemonPort}
    /\ clients = [c \in Clients |-> IdleClient]
    /\ inflight = NoInflight
    /\ workspaces = [w \in WorkspaceNames |-> NoWorkspace]
    /\ workspace_client = IdleWorkspaceClient
    /\ workspace_dirs = {}

SpecLoaded == InitLoaded /\ [][NextMirror]_vars

\* The same over base directories that hold sub-directories where the
\* monitors look for files.
ScanSources ==
    { [p \in Bases \X Names |->
        IF p = <<"B1", "f1">> THEN File("c1", 0)
        ELSE IF p = <<"B1", "f2">> THEN Directory ELSE NoFile],
      [p \in Bases \X Names |->
        IF p[2] = "f1" THEN Directory
        ELSE IF p = <<"B1", "f2">> THEN File("c2", 0) ELSE NoFile] }

InitScan ==
    /\ monitors \in MirrorTables
    /\ workspace_name = ""
    /\ pending = 0
    /\ pc = "loop"
    /\ pass_i = 1
    /\ has_broken_monitors = FALSE
    /\ src \in ScanSources
    /\ dst = [p \in WriteDirs \X Names |-> NoFile]
    /\ wdir = [w \in WriteDirs |-> TRUE]
    /\ fs_events = 0
    /\ last = Quiet("init")
    /\ last_set_name = ""
    /\ port_files = {DaemonPort}
    /\ live = {DaemonPort}
    /\ clients = [c \in Clients |-> IdleClient]
    /\ inflight = NoInflight
    /\ workspaces = [w \in WorkspaceNames |-> NoWorkspace]
    /\ workspace_client = IdleWorkspaceClient
    /\ workspace_dirs = {}

SpecScan == InitScan /\ [][NextMirror]_vars

\* run_server never stops looping on its own: the `for connection in
\* listener.incoming()` loop takes its next step whenever it has one.
DaemonStep == BeginPass \/ UpdateLinksStep \/ EndPass

SpecMirrorFair == SpecMirror /\ WF_vars(DaemonStep)

\* The same for the daemon that is being stopped; a stop_server that has its
\* response goes on to remove the port file.
SpecShutdownFair ==
    /\ SpecShutdown
    /\ WF_vars(HandleConnection \/ DaemonStep)
    /\ WF_vars(\E c \in Clients : RemovePortFile(c))

TypeOK ==
    /\ Len(monitors) <= MaxMonitors
    /\ workspace_name \in WorkspaceNames \cup {""}
    /\ pc \in {"loop", "pass", "done", "panicked"}
    /\ \A w \in WriteDirs : ~wdir[w] => \A n \in Names : ~dst[<<w, n>>].exists

\* -------------------------------------------------------------- reconcile
\* the step is update_links on monitors[pass_i]
UpdateStep ==
    /\ pc = "pass" /\ ~has_broken_monitors /\ pass_i <= Len(monitors)
    /\ last'.op = "update"
    /\ pass_i' = pass_i + 1 \/ has_broken_monitors'

\* the step is an update_links that returned Ok
UpdateOkStep == UpdateStep /\ last'.res = "Ok"

\* the names of the regular files base_directory/read_pattern matches
Matched(m, s) ==
    {n \in Names : GlobMatch(m.read_pattern, n) /\ s[<<m.base_directory, n>>].exists}

\* C1 (as stated): right after update_links returned Ok for a monitor, every
\* source file its pattern matches has a destination that exists, has the
\* content of the source and an mtime not older than the source's.
C1_MirrorCopyIdentical ==
    (last.op = "update" /\ last.res = "Ok") =>
        LET m == monitors[last.mon]
        IN  \A n \in Matched(m, src) :
                LET s == src[<<m.base_directory, n>>]
                    d == dst[<<m.write_directory, n>>]
                IN  d.exists /\ d.content = s.content /\ d.mtime >= s.mtime

\* C1 (amended): after update_links returned Ok, every matched source has a
\* destination that exists with mtime >= the source's mtime; the destination
\* has the source's content when it was absent or older than the source
\* before the pass, and otherwise it is the file it was before the pass.
C1_MirrorCopy ==
    [][UpdateOkStep =>
        LET m == monitors[pass_i]
        IN  \A n \in Matched(m, src) :
                LET s == src[<<m.base_directory, n>>]
                    d == dst[<<m.write_directory, n>>]
                    e == dst'[<<m.write_directory, n>>]
                IN  /\ e.exists /\ e.mtime >= s.mtime
                    /\ IF ~d.exists \/ d.mtime < s.mtime
                       THEN e.content = s.content
                       ELSE e = d]_vars

\* C1 witness: an Ok pass copied one matched source and met another whose
\* destination was not older and holds other content.
C1_Witness ==
    /\ last.op = "update" /\ last.res = "Ok" /\ last.copied # {}
    /\ \E n \in Matched(monitors[last.mon], src) :
        /\ dst[<<monitors[last.mon].write_directory, n>>].exists
        /\ dst[<<monitors[last.mon].write_directory, n>>].content
                # src[<<monitors[last.mon].base_directory, n>>].content

\* C2 (as stated): when update_links runs on a monitor that holds a link whose
\* source no longer exists, afterwards the link's destination is absent and
\* the link is not in the monitor's link set.
C2_MirrorDeleteAlways ==
    [][UpdateStep =>
        \A l \in Range(monitors[pass_i].links) :
            ~src[l.source].exists =>
                /\ ~dst'[l.destination].exists
                /\ l \notin Range(monitors'[pass_i].links)]_vars

\* C2 (amended): the same, for an update_links that returns Ok.
C2_MirrorDelete ==
    [][UpdateOkStep =>
        \A l \in Range(monitors[pass_i].links) :
            ~src[l.source].exists =>
                /\ ~dst'[l.destination].exists
                /\ l \notin Range(monitors'[pass_i].links)]_vars

\* C2 witness: an Ok pass deleted the destination of a link whose source is
\* gone, and the link has left the set.
C2_Witness ==
    /\ last.op = "update" /\ last.res = "Ok"
    /\ \E l \in last.deleted :
        /\ ~src[l.source].exists /\ ~dst[l.destination].exists
        /\ l \notin Range(monitors[last.mon].links)

C4_SourceWins ==
    [][UpdateOkStep =>
        \A l \in Range(monitors'[pass_i].links) :
            LET s == src[l.source]
                d == dst[l.destination]
                e == dst'[l.destination]
            IN  IF ~d.exists \/ s.mtime > d.mtime
                THEN /\ l \in last'.copied
                     /\ e.exists /\ e.content = s.content /\ e.mtime = s.mtime
                ELSE /\ l \notin last'.copied
                     /\ e = d]_vars

\* C4 witness: one pass overwrote an older destination and left one of equal
\* mtime and other content untouched.
C4_Witness ==
    /\ last.op = "update" /\ last.res = "Ok" /\ last.copied # {}
    /\ \E l \in Range(monitors[last.mon].links) \ last.copied :
        /\ dst[l.destination].mtime = src[l.source].mtime
        /\ dst[l.destination].content # src[l.source].content

\* C5: whenever a write directory has disappeared while some monitor of the
\* table writes to it, the daemon's passes eventually leave the table without
\* any monitor of that write directory.
C5_UnpluggedMonitorDropped ==
    \A w \in WriteDirs :
        (~wdir[w] /\ \E i \in 1..Len(monitors) : monitors[i].write_directory = w)
            ~> (\A i \in 1..Len(monitors) : monitors[i].write_directory # w)

\* ---------------------------------------------------------------- requests
\* the step is handle_connection on one request
HandleStep ==
    pc = "loop" /\ pending > 0 /\ pending' = pending - 1 /\ last'.op = "request"

\* C6 (as stated): right after the daemon handled a StartLink or a StopLink
\* request, whatever it answered, workspace_name is empty.
C6_NameClearedByEveryStartStop ==
    (last.op = "request" /\ last.req.type \in {"StartLink", "StopLink"}) =>
        workspace_name = ""

\* C6 (amended): right after the daemon handled a StartLink or a StopLink
\* request that it answered with a Message (not an ErrorMessage),
\* workspace_name is empty.
C6_NameClearedByStartStop ==
    (/\ last.op = "request" /\ last.req.type \in {"StartLink", "StopLink"}
     /\ last.response.type = "Message") =>
        workspace_name = ""

\* C6 witness: a StopLink removed one link after a workspace name was set.
C6_Witness ==
    /\ last.op = "request" /\ last.req.type = "StopLink"
    /\ last.response = Message("Link removed!")
    /\ last_set_name # "" /\ workspace_name = ""

\* C7: workspace_name is always empty or the name of the most recent
\* SetWorkspaceName request, and a step that changes it to a non-empty value
\* is the handling of a SetWorkspaceName request carrying that value.
C7_OnlySetWorkspaceNameAssigns ==
    /\ [](workspace_name \in {"", last_set_name})
    /\ [][(workspace_name' # workspace_name /\ workspace_name' # "") =>
            (/\ HandleStep /\ last'.req.type = "SetWorkspaceName"
             /\ last'.req.name = workspace_name')]_vars

\* C7 witness: a SetWorkspaceName request assigned its name while monitors are
\* in the table.
C7_Witness ==
    /\ last.op = "request" /\ last.req.type = "SetWorkspaceName"
    /\ workspace_name = "w2" /\ last.req.name = "w2"
    /\ Len(monitors) > 0

\* the error a request for link n gets when the table is not empty and shorter
NoSuchLink(n) ==
    CASE n = 1 -> "Link 1 does not exist!"
      [] n = 2 -> "Link 2 does not exist!"
      [] n = 3 -> "Link 3 does not exist!"
      [] n = 4 -> "Link 4 does not exist!"
      [] OTHER -> "Link 5 does not exist!"

\* C8: StopLink{n} and ViewLink{n} with n >= 1 are answered ErrorMessage "No
\* links are active" when the table is empty and ErrorMessage "Link n does not
\* exist!" when n exceeds the length of the non-empty table; the table and
\* workspace_name stay as they were.
C8_NoSuchMonitor ==
    [][(/\ HandleStep /\ last'.req.type \in {"StopLink", "ViewLink"}
        /\ last'.req.number >= 1
        /\ (monitors = <<>> \/ last'.req.number > Len(monitors))) =>
            (/\ last'.response =
                    [type |-> "ErrorMessage",
                     msg |-> IF monitors = <<>> THEN "No links are active"
                             ELSE NoSuchLink(last'.req.number)]
             /\ monitors' = monitors
             /\ workspace_name' = workspace_name)]_vars

\* C8 witness: StopLink for a link beyond the table's end was refused while a
\* workspace name was set.
C8_Witness ==
    /\ last.op = "request" /\ last.req.type = "StopLink"
    /\ last.response.type = "ErrorMessage"
    /\ monitors # <<>> /\ last.req.number > Len(monitors)
    /\ workspace_name # ""

\* the identity triples of a table agree, position by position, with a list
\* of serialized monitors
SameTriples(json, mons) ==
    /\ Len(json) = Len(mons)
    /\ \A k \in 1..Len(mons) :
        /\ json[k].read_pattern = mons[k].read_pattern
        /\ json[k].write_directory = mons[k].write_directory
        /\ json[k].base_directory = mons[k].base_directory

\* C9: ViewLink{0} is answered Links with every monitor of the table in table
\* order, ViewLink{n} with 1 <= n <= length is answered Links with exactly the
\* n-th monitor, and a larger n is answered ErrorMessage.
C9_ViewLinkIndexing ==
    (last.op = "request" /\ last.req.type = "ViewLink") =>
        LET n == last.req.number
        IN  /\ n = 0 =>
                /\ last.response.type = "Links"
                /\ SameTriples(last.response.json, monitors)
            /\ (1 <= n /\ n <= Len(monitors)) =>
                /\ last.response.type = "Links"
                /\ SameTriples(last.response.json, <<monitors[n]>>)
            /\ n > Len(monitors) => last.response.type = "ErrorMessage"

\* C9 witness: ViewLink{2} on a table of two different monitors.
C9_Witness ==
    /\ last.op = "request" /\ last.req = [type |-> "ViewLink", number |-> 2]
    /\ Len(monitors) = 2 /\ monitors[1].read_pattern # monitors[2].read_pattern
    /\ last.response.type = "Links"

\* C10: StopLink{0} empties the table and is answered Message "All links
\* cleared!"; StopLink{n} with 1 <= n <= length is answered Message "Link
\* removed!" and leaves the table without its n-th monitor, the others in
\* their order.
C10_StopLink ==
    [][(HandleStep /\ last'.req.type = "StopLink") =>
        LET n == last'.req.number
        IN  /\ n = 0 =>
                /\ monitors' = <<>>
                /\ last'.response = Message("All links cleared!")
            /\ (1 <= n /\ n <= Len(monitors)) =>
                /\ last'.response = Message("Link removed!")
                /\ Len(monitors') = Len(monitors) - 1
                /\ \A k \in 1..(n - 1) : monitors'[k] = monitors[k]
                /\ \A k \in n..(Len(monitors) - 1) : monitors'[k] = monitors[k + 1]]_vars

\* C10 witness: StopLink{1} removed the first of two different monitors and
\* the second moved to position 1.
C10_Witness ==
    /\ last.op = "request" /\ last.req = [type |-> "StopLink", number |-> 1]
    /\ last.response = Message("Link removed!")
    /\ Len(monitors) = 1 /\ monitors[1].read_pattern = "f1"

\* the answer to the StartLink that made the table n monitors long
LinkStarted(n) ==
    CASE n = 1 -> "Link 1 started!"
      [] n = 2 -> "Link 2 started!"
      [] n = 3 -> "Link 3 started!"
      [] n = 4 -> "Link 4 started!"
      [] OTHER -> "Link 5 started!"

\* C11: handling a StartLink request makes the table one monitor longer, the
\* monitors it held stay as they were and in their order, the last monitor is
\* the requested triple with no links, whether or not the triple is already in
\* the table, and the answer is Message "Link N started!" with N the new
\* length.
C11_StartLinkAppends ==
    [][(HandleStep /\ last'.req.type = "StartLink") =>
        LET n == Len(monitors) + 1
        IN  /\ Len(monitors') = n
            /\ \A k \in 1..Len(monitors) : monitors'[k] = monitors[k]
            /\ monitors'[n] =
                    [read_pattern |-> last'.req.read_pattern,
                     write_directory |-> last'.req.write_directory,
                     base_directory |-> last'.req.base_directory,
                     links |-> <<>>]
            /\ last'.response = [type |-> "Message", msg |-> LinkStarted(n)]]_vars

\* C11 witness: a StartLink for the triple of the first monitor, which holds
\* links, was answered "Link 2 started!".
C11_Witness ==
    /\ last.op = "request" /\ last.req.type = "StartLink"
    /\ last.response = [type |-> "Message", msg |-> "Link 2 started!"]
    /\ Len(monitors) = 2
    /\ monitors[1].links # <<>> /\ monitors[2].links = <<>>
    /\ monitors[1].read_pattern = monitors[2].read_pattern
    /\ monitors[1].write_directory = monitors[2].write_directory
    /\ monitors[1].base_directory = monitors[2].base_directory

\* --------------------------------------------------------------- shutdown
\* C12: the daemon answers a Shutdown request with Message "@stopping" and
\* stops with its table and name as they were; once it has stopped it handles
\* no request and runs no reconcile step; and with the daemon's loop scheduled
\* fairly, a Shutdown request waiting in the backlog leads to the daemon
\* having stopped.
C12_ShutdownHandshake ==
    /\ [][(HandleStep /\ last'.req.type = "Shutdown") =>
            (/\ last'.response = [type |-> "Message", msg |-> "@stopping"]
             /\ pc' = "done"
             /\ monitors' = monitors /\ workspace_name' = workspace_name)]_vars
    /\ [][pc = "done" =>
            (/\ pc' = "done" /\ last' = last /\ pending' = pending
             /\ monitors' = monitors /\ workspace_name' = workspace_name
             /\ dst' = dst /\ wdir' = wdir)]_vars
    /\ ((inflight.at > 0 /\ inflight.request.type = "Shutdown") ~> pc = "done")

\* C12 witness: the daemon has stopped on the Shutdown request of stop_server,
\* which has its answer, while the table held a monitor with links.
C12_Witness ==
    /\ pc = "done"
    /\ last.op = "request" /\ last.req.type = "Shutdown"
    /\ clients["c1"].pc = "answered"
    /\ clients["c1"].response = [type |-> "Message", msg |-> "@stopping"]
    /\ monitors # <<>> /\ monitors[1].links # <<>>

\* C13: once the daemon has stopped on a Shutdown request, the port directory
\* comes to hold no file named after the daemon's port.
C13_PortFileRemovedOnExit ==
    (pc = "done" /\ last.req.type = "Shutdown") ~> (DaemonPort \notin port_files)

\* ---------------------------------------------------------- port registry
\* the step ends the sweep of client c
SweepCompletes(c) == clients[c].pc = "sweep" /\ clients'[c].pc = "swept"

\* C14: when the get_port of a client completes and no daemon has started or
\* stopped since it began, the ports that have a file are exactly the ports
\* of the live daemons, and get_port returns a live port, or 0 when there is
\* none.
C14_RegistryConvergence ==
    [][\A c \in Clients :
        (SweepCompletes(c) /\ clients[c].undisturbed) =>
            /\ port_files' = live'
            /\ IF live' = {} THEN clients'[c].port = 0
               ELSE clients'[c].port \in live']_vars

\* ------------------------------------------------------------ client errors
\* C15: when the daemon accepts a connection that delivers no well-formed
\* request, it keeps running, at the top of its loop and ready to accept the
\* next connection, with its table and workspace_name as they were.
C15_MalformedRequestSurvived ==
    [][(pc = "loop" /\ pending > 0 /\ last'.op = "malformed") =>
        (/\ pc' = "loop"
         /\ monitors' = monitors
         /\ workspace_name' = workspace_name)]_vars

\* C16: a StartLink request whose read_pattern is not a valid glob is not
\* answered with a success Message but with an ErrorMessage.
C16_MalformedGlobRejected ==
    (/\ last.op = "request" /\ last.req.type = "StartLink"
     /\ ~ValidGlob(last.req.read_pattern)) =>
        (last.response.type # "Message" /\ last.response.type = "ErrorMessage")

\* -------------------------------------------------------- workspace store
\* the identity triples of a list of serialized monitors, without links
Linkless(json) ==
    [k \in 1..Len(json) |->
        [read_pattern |-> json[k].read_pattern,
         write_directory |-> json[k].write_directory,
         base_directory |-> json[k].base_directory,
         links |-> <<>>]]

\* C17: after a save of the monitor list ws under a name has succeeded, no
\* monitor in the file has a link, and every way of loading the name yields
\* monitors without links whose identity triples are those of ws, in the
\* order of ws.
C17_WorkspaceRoundTrip ==
    (/\ workspace_client.pc = "idle" /\ workspace_client.op = "save"
     /\ workspace_client.ok) =>
        LET ws == workspace_client.response.json
            file == workspaces[workspace_client.name]
        IN  /\ file.exists
            /\ \A k \in 1..Len(file.monitors) : file.monitors[k].links = <<>>
            /\ \A w \in from_name(workspace_client.name, workspaces) :
                /\ w.err = ""
                /\ SameTriples(w.monitors, ws)
                /\ \A k \in 1..Len(w.monitors) : w.monitors[k].links = <<>>

\* C17 witness: a save of two different monitors succeeded, the first of
\* which had links in the list the daemon sent.
C17_Witness ==
    /\ workspace_client.pc = "idle" /\ workspace_client.op = "save"
    /\ workspace_client.ok
    /\ Len(workspace_client.response.json) = 2
    /\ workspace_client.response.json[1].links # <<>>
    /\ workspace_client.response.json[1].read_pattern
            # workspace_client.response.json[2].read_pattern
    /\ Len(workspaces["w1"].monitors) = 2

\* C18: once a load of workspace w has succeeded, and while its client sends
\* nothing else, ViewWorkspaceName is answered w and the table holds exactly
\* the monitors of the file of w, in the order of the file; and handling a
\* StartLink request leaves the workspace name empty.
C18_WorkspaceLoad ==
    /\ []((/\ workspace_client.pc = "idle" /\ workspace_client.op = "load"
           /\ workspace_client.ok) =>
            (/\ workspace_name = workspace_client.name
             /\ handle_connection([type |-> "ViewWorkspaceName"], monitors,
                                  workspace_name).response
                    = [type |-> "Message", msg |-> workspace_client.name]
             /\ workspaces[workspace_client.name].exists
             /\ SameTriples(workspaces[workspace_client.name].monitors, monitors)))
    /\ [][(HandleStep /\ last'.req.type = "StartLink") =>
            workspace_name' = ""]_vars

\* C18 witness: workspace w1 with two different monitors has been loaded.
C18_Witness ==
    /\ workspace_client.pc = "idle" /\ workspace_client.op = "load"
    /\ workspace_client.ok /\ workspace_client.name = "w1"
    /\ workspace_name = "w1"
    /\ Len(monitors) = 2
    /\ monitors[1].read_pattern # monitors[2].read_pattern

\* the step is save_workspace returning after it got a list with monitors
SaveReturns ==
    /\ workspace_client.pc = "answered" /\ workspace_client.op = "save"
    /\ workspace_client.response.type = "Links"
    /\ workspace_client.response.json # <<>>
    /\ workspace_client'.pc = "idle"

\* C19: a save under a name that has a workspace file fails with
\* AlreadyExists and changes no file when it is not forced; when it is forced
\* it succeeds and the file holds the description and the monitors of the new
\* snapshot, the other files as they were.
C19_SaveRefusesOverwrite ==
    [][(SaveReturns /\ workspaces[workspace_client.name].exists) =>
        IF ~workspace_client.force
        THEN /\ ~workspace_client'.ok
             /\ workspace_client'.err = "AlreadyExists"
             /\ workspaces' = workspaces
        ELSE /\ workspace_client'.ok
             /\ workspaces'[workspace_client.name] =
                    [exists |-> TRUE, desc |-> workspace_client.desc,
                     monitors |-> Linkless(workspace_client.response.json)]
             /\ \A n \in WorkspaceNames \ {workspace_client.name} :
                    workspaces'[n] = workspaces[n]]_vars

\* C19 witness: a save that was not forced was refused, and the file still
\* holds other monitors than the ones that were to be saved.
C19_Witness ==
    /\ workspace_client.pc = "idle" /\ workspace_client.op = "save"
    /\ ~workspace_client.force
    /\ workspace_client.err = "AlreadyExists"
    /\ workspaces["w1"].exists
    /\ workspaces["w1"].monitors # Linkless(workspace_client.response.json)

\* C20: save_workspace that got an empty list of monitors returns "No file
\* monitors are active to save" and changes no workspace file; and every
\* workspace file holds at least one monitor.
C20_NothingToSave ==
    /\ [][(/\ workspace_client.pc = "answered" /\ workspace_client.op = "save"
           /\ workspace_client.response = [type |-> "Links", json |-> <<>>]
           /\ workspace_client'.pc = "idle") =>
            (/\ ~workspace_client'.ok
             /\ workspace_client'.result = "No file monitors are active to save"
             /\ workspaces' = workspaces)]_vars
    /\ [](\A n \in WorkspaceNames :
            workspaces[n].exists => Len(workspaces[n].monitors) >= 1)

\* C20 witness: a forced save with no monitor active was refused while a file
\* of that name exists.
C20_Witness ==
    /\ workspace_client.pc = "idle" /\ workspace_client.op = "save"
    /\ workspace_client.force
    /\ workspace_client.result = "No file monitors are active to save"
    /\ monitors = <<>>
    /\ workspaces[workspace_client.name].exists

\* ------------------------------------------------------- workspace commands
\* the rank of each name in the lexicographic order of names
LexRank(name) ==
    CASE name = "w1" -> 1 [] name = "w10" -> 2 [] name = "w2" -> 3 [] OTHER -> 0

\* the names whose workspace file is in the directory
Stored == {n \in DOMAIN workspaces : workspaces[n].exists}

RenameStep(orig, new) ==
    /\ workspace_client'.op = "rename"
    /\ workspace_client'.name = orig
    /\ \/ workspace_client'.result =
                "Renamed workspace '" \o orig \o "' to '" \o new \o "'"
       \/ ~workspace_client'.ok

ServerCommandStep(c) ==
    /\ clients[c].pc = "swept"
    /\ clients[c].op \in {"run_server", "start_server"}
    /\ clients'[c].pc # "swept"

\* C23: a `server run` or `server start` that was invoked while a live daemon
\* was registered, and during which no daemon has started or stopped, returns
\* "Server already running", binds no socket and creates no port file; and
\* there is never more than one live daemon.
C23_ServerAlreadyRunning ==
    /\ [][\A c \in Clients :
            (/\ ServerCommandStep(c)
             /\ clients[c].undisturbed
             /\ live \cap port_files # {}) =>
                /\ clients'[c].pc = "refused"
                /\ clients'[c].response = ErrorMessage("Server already running")
                /\ live' = live
                /\ port_files' = port_files]_vars
    /\ [](Cardinality(live) <= 1)

\* C24: a `server run` that has passed the check for a running daemon and
\* asks for a port it cannot bind returns "Could not bind to port", and only
\* then; it has created no port file, no daemon has come to be and no request
\* has been handled.
C24_BindFailure ==
    [][\A c \in Clients :
        (/\ ServerCommandStep(c)
         /\ clients[c].op = "run_server"
         /\ clients[c].port = 0) =>
            LET bind_error ==
                    /\ clients'[c].pc = "refused"
                    /\ clients'[c].response = ErrorMessage("Could not bind to port")
            IN  /\ bind_error <=> clients'[c].port \in live
                /\ bind_error =>
                    /\ port_files' = port_files
                    /\ live' = live
                    /\ pending' = pending /\ last' = last
                    /\ monitors' = monitors]_vars

\* C24 witness: a `server run` has returned the bind error for the port a
\* daemon listens on.
C24_Witness ==
    \E c \in Clients :
        /\ clients[c].op = "run_server" /\ clients[c].pc = "refused"
        /\ clients[c].response = ErrorMessage("Could not bind to port")
        /\ clients[c].port \in live

\* ---------------------------------------------------- the workspace name
\* the monitors of a table without their links
Identities(mons) ==
    [k \in 1..Len(mons) |->
        <<mons[k].read_pattern, mons[k].write_directory, mons[k].base_directory>>]

\* C25: every step of the daemon that changes which monitors the table holds
\* (a StartLink, a StopLink, or a pass that drops monitors) leaves
\* workspace_name empty.
C25_NameClearedOnMutation ==
    [][Identities(monitors') # Identities(monitors) => workspace_name' = ""]_vars

\* ------------------------------------------------------------ the pass
\* the step ends a reconcile pass
EndPassStep == pc = "pass" /\ pc' = "loop"

\* C26: when a reconcile pass ends, update_links has been called on every
\* monitor of the table, also on those behind a monitor that returned an
\* error in the pass.
C26_EveryMonitorReconciled ==
    [][EndPassStep => pass_i >= Len(monitors)]_vars

\* the pass that ends broke off at monitors[pass_i], whose update_links
\* returned FileIOError (the only error of a monitor with a well-formed glob)
FileIOErrorPass ==
    /\ EndPassStep
    /\ has_broken_monitors
    /\ ValidGlob(monitors[pass_i].read_pattern)

\* C27: a monitor whose update_links returned FileIOError in a pass is not in
\* the table when the pass has ended, whether its write directory exists or
\* not.
C27_FileIOErrorMonitorRemoved ==
    [][FileIOErrorPass =>
        \A k \in 1..Len(monitors') :
            Identities(monitors')[k] # Identities(monitors)[pass_i]]_vars

\* the links of monitor m whose source is gone: update_links deletes their
\* destinations
Removed(m) == {l \in Range(m.links) : ~src[l.source].exists}

\* C28: when update_links runs on a monitor with a well-formed glob and the
\* destination of one of the links it has to remove cannot be deleted, it
\* returns FileIOError, the monitor keeps the links it had, nothing is copied
\* and no write directory is made: the only files that change are removed
\* links' destinations deleted before the failure.
C28_NoPartialSwap ==
    [][(/\ UpdateStep
        /\ ValidGlob(monitors[pass_i].read_pattern)
        /\ \E l \in Removed(monitors[pass_i]) : ~dst[l.destination].exists) =>
            /\ last'.res = "FileIOError"
            /\ monitors'[pass_i].links = monitors[pass_i].links
            /\ last'.copied = {}
            /\ wdir' = wdir
            /\ \A q \in DOMAIN dst :
                    \/ dst'[q] = dst[q]
                    \/ /\ dst'[q] = NoFile
                       /\ \E l \in Removed(monitors[pass_i]) : l.destination = q]_vars

\* C28 witness: update_links has returned FileIOError on a monitor that holds
\* a link whose source exists and whose destination is absent, which an Ok
\* pass would have copied.
C28_Witness ==
    /\ last.op = "update" /\ last.res = "FileIOError"
    /\ \E l \in Range(monitors[last.mon].links) :
        src[l.source].exists /\ ~dst[l.destination].exists

\* ------------------------------------------------------------- the links
\* the link of the source base_directory/n of monitor m
LinkOf(m, n) ==
    FileLink(<<m.base_directory, n>>, <<m.write_directory, n>>)

\* the names of the regular files that base_directory/read_pattern matches
MatchedFiles(m, s) ==
    {n \in Names : /\ GlobMatch(m.read_pattern, n)
                   /\ s[<<m.base_directory, n>>].exists
                   /\ ~s[<<m.base_directory, n>>].is_dir}

\* C29: when update_links returns Ok the monitor holds, each once, exactly
\* the links from the regular files its pattern matches in the base directory
\* to the same relative paths in the write directory: none for a matched
\* directory or for a file that does not match, and no two links with the
\* same destination.
C29_LinksAreTheMatches ==
    [][UpdateOkStep =>
        LET m == monitors'[pass_i]
        IN  /\ Range(m.links) = {LinkOf(m, n) : n \in MatchedFiles(m, src)}
            /\ \A i, j \in 1..Len(m.links) :
                    m.links[i].destination = m.links[j].destination => i = j]_vars

\* C29 witness: an Ok update_links has linked a file and left out a
\* directory that the pattern matches as well.
C29_Witness ==
    /\ last.op = "update" /\ last.res = "Ok"
    /\ monitors[last.mon].links # <<>>
    /\ \E n \in Names :
        /\ GlobMatch(monitors[last.mon].read_pattern, n)
        /\ src[<<monitors[last.mon].base_directory, n>>].is_dir

\* ------------------------------------------------------------ the loop
\* C30: a loop iteration that finds a connection waiting handles it and
\* reconciles nothing: no pass begins, no file changes and every monitor of
\* the table is one it held before, links included, or a new one without
\* links; a pass begins only in an iteration that finds no connection
\* waiting, and update_links runs only inside a pass.
C30_AcceptFirst ==
    /\ [][(pc = "loop" /\ pending > 0 /\ pending' <= pending) =>
            /\ HandleStep
            /\ pc' \in {"loop", "done"}
            /\ dst' = dst /\ wdir' = wdir
            /\ last'.copied = {} /\ last'.deleted = {}
            /\ \A j \in 1..Len(monitors') :
                    \/ monitors'[j] \in Range(monitors)
                    \/ monitors'[j].links = <<>>]_vars
    /\ [][(pc = "loop" /\ pc' = "pass") => pending = 0]_vars
    /\ [][last'.op = "update" => pc = "pass"]_vars

\* C30 witness: the daemon has handled two StartLink requests in a row and
\* has not yet linked the files the first monitor matches.
C30_Witness ==
    /\ last.op = "request" /\ pc = "loop"
    /\ Len(monitors) = 2
    /\ monitors[1].links = <<>> /\ monitors[2].links = <<>>
    /\ MatchedFiles(monitors[1], src) # {}

\* the step takes a connection from the backlog and answers its request
RequestStep == pending' = pending - 1 /\ last'.op = "request"

RECURSIVE IsSubSeq(_, _)
IsSubSeq(a, b) ==
    IF a = <<>> THEN TRUE
    ELSE IF b = <<>> THEN FALSE
    ELSE IF Head(a) = Head(b) THEN IsSubSeq(Tail(a), Tail(b))
    ELSE IsSubSeq(a, Tail(b))

\* C32: Ping, ViewLink, ViewWorkspaceName and Shutdown leave the table and
\* workspace_name as they are, SetWorkspaceName leaves the table as it is, and
\* after every step of the daemon the identities of the table are those of
\* the table before with some left out, in the same order, followed by the
\* new monitor when the step handled a StartLink.
C32_Frame ==
    /\ [][(RequestStep /\ last'.req.type \in
                {"Ping", "ViewLink", "ViewWorkspaceName", "Shutdown"}) =>
            monitors' = monitors /\ workspace_name' = workspace_name]_vars
    /\ [][(RequestStep /\ last'.req.type = "SetWorkspaceName") =>
            monitors' = monitors]_vars
    /\ [][LET started == RequestStep /\ last'.req.type = "StartLink"
              kept == IF started THEN Len(monitors') - 1 ELSE Len(monitors')
          IN  /\ kept >= 0
              /\ IsSubSeq(SubSeq(Identities(monitors'), 1, kept),
                          Identities(monitors))]_vars

\* C32 witness: a pass has stopped at the first of two monitors and dropped
\* it; the monitor that was behind it, not yet reconciled, is now the first
\* of the table.
C32_Witness ==
    /\ last.op = "endpass"
    /\ has_broken_monitors /\ pass_i = 1
    /\ Len(monitors) = 1
    /\ monitors[1].read_pattern = "*" /\ monitors[1].links = <<>>
    /\ wdir["W1"] /\ ~wdir["W2"]

\* --------------------------------------------------- dropping monitors
\* C33: a step of the daemon's reconcile branch leaves in the table, in their
\* order, all the monitors whose write directory exists when the step is
\* taken, whatever their reconcile returned; and a pass in which no reconcile
\* failed ends with the table it had.
C33_OnlyWithoutWriteDirectory ==
    /\ [][(pc = "pass") =>
            LET present == SelectSeq(monitors,
                               LAMBDA m : write_directory_exists(m, wdir))
            IN  IsSubSeq(Identities(present), Identities(monitors'))]_vars
    /\ [][(EndPassStep /\ ~has_broken_monitors) => monitors' = monitors]_vars

\* C33 witness: a pass has ended after the reconcile of the first of two
\* monitors returned FileIOError, and both monitors are in the table.
C33_Witness ==
    /\ last.op = "endpass"
    /\ has_broken_monitors /\ pass_i = 1
    /\ Len(monitors) = 2
    /\ monitors[1].links # <<>>
    /\ ValidGlob(monitors[1].read_pattern)
    /\ \A k \in 1..2 : write_directory_exists(monitors[k], wdir)

\* ------------------------------------------------- recovery of a monitor
\* C34: once the files are left alone, a monitor whose reconcile has returned
\* FileIOError and whose write directory exists is later reconciled with
\* result Ok, its links being the links of the files that match.
C34_FailureNotPermanent ==
    \A k \in 1..MaxMonitors :
        (/\ fs_events = MaxFsEvents
         /\ last.op = "update" /\ last.mon = k /\ last.res = "FileIOError"
         /\ \A j \in 1..Len(monitors) : write_directory_exists(monitors[j], wdir))
            ~> (/\ last.op = "update" /\ last.mon = k /\ last.res = "Ok"
                /\ Range(monitors[k].links) =
                       calculate_monitored_files(monitors[k], src).links)

\* ------------------------------------------------------ a save in a copy
\* C35: once the editor has stopped saving, a reconcile of a monitor that
\* returns Ok leaves every destination of a matched source with the content
\* of the source, also when a save fell between the copy and the reading of
\* the source's mtime in an earlier pass.
C35_NoLostUpdate ==
    [][(UpdateOkStep /\ fs_events = MaxFsEvents) =>
        LET m == monitors[pass_i]
        IN  \A n \in Matched(m, src) :
                dst'[<<m.write_directory, n>>].content =
                    src[<<m.base_directory, n>>].content]_vars

\* ------------------------------------------------ loads among other clients
\* C36: whenever workspace_name is a name w, the table holds exactly the
\* monitors of the file of w, in the order of the file, also while other
\* clients start and stop links between the requests of a load.
C36_SnapshotIdentity ==
    workspace_name # "" =>
        /\ workspaces[workspace_name].exists
        /\ SameTriples(workspaces[workspace_name].monitors, monitors)

\* the step handles the first request of a load whose workspace file is
\* missing or cannot be parsed: the only request such a load sends
FailingLoadStep ==
    /\ RequestStep /\ inflight.at = 1
    /\ workspace_client.op = "load" /\ workspace_client.step = "stop"
    /\ \A w \in from_name(workspace_client.name, workspaces) : w.err # ""

\* C37: a load of a workspace that does not exist or cannot be parsed leaves
\* the daemon's table and workspace_name as they were: the one request it
\* sends before it fails changes neither.
C37_FailedLoadChangesNothing ==
    [][FailingLoadStep =>
        /\ Identities(monitors') = Identities(monitors)
        /\ workspace_name' = workspace_name]_vars

\* ------------------------------------------------- clients side by side
\* C38: clients that sweep the port directory or stop a daemon side by side
\* all complete: no client fails at the removal of a port file, neither in
\* the sweep of a port nobody listens on nor in stop_server once the daemon
\* has answered.
C38_ConcurrentMaintenance ==
    [][\A c \in Clients :
        /\ (/\ clients[c].pc = "sweep" /\ clients'[c].pc = "failed")
                => Head(clients[c].todo) \in live
        /\ (/\ clients[c].pc = "answered" /\ clients[c].op = "stop_server")
                => clients'[c].pc # "failed"]_vars

\* ------------------------------------------------ one destination for two
\* the sources of the shared destination with the greatest mtime
Greatest ==
    LET sources == {<<"B1", "f1">>, <<"B2", "f1">>}
    IN  {p \in sources : \A q \in sources : src[p].mtime >= src[q].mtime}

\* a pass has ended
PassDone == pc = "loop" /\ last.op = "endpass"

\* the step is an update_links in a pass after the first
FurtherPassStep ==
    UpdateStep /\ \A k \in 1..Len(monitors) : monitors[k].links # <<>>

\* C39 (as stated): after a pass the shared destination holds the content and
\* the mtime of a source with the greatest mtime, and no update_links of a
\* later pass copies or deletes anything.
C39_SharedDestinationLatest ==
    /\ [](PassDone =>
            \E p \in Greatest :
                dst[<<"W1", "f1">>] = File(src[p].content, src[p].mtime))
    /\ [][FurtherPassStep =>
            /\ last'.res = "Ok"
            /\ last'.copied = {} /\ last'.deleted = {}]_vars

\* C39 (amended): after a pass the shared destination is the copy of a source
\* with the greatest mtime, or it is the file that was there before with an
\* mtime not older than any source; and no update_links of a later pass
\* copies or deletes anything.
C39_SharedDestination ==
    /\ [](PassDone =>
            \/ \E p \in Greatest :
                dst[<<"W1", "f1">>] = File(src[p].content, src[p].mtime)
            \/ /\ dst[<<"W1", "f1">>].exists
               /\ dst[<<"W1", "f1">>].content = ""
               /\ \A p \in Greatest : dst[<<"W1", "f1">>].mtime >= src[p].mtime)
    /\ [][FurtherPassStep =>
            /\ last'.res = "Ok"
            /\ last'.copied = {} /\ last'.deleted = {}
            /\ dst' = dst]_vars

\* C39 witness: the monitor of B2 comes first in the table and has copied its
\* older source, the monitor of B1 has then copied its newer one over it; a
\* later pass has gone through both without a copy.
C39_Witness ==
    /\ PassDone
    /\ monitors[1].read_pattern = "f1"
    /\ \A k \in 1..Len(monitors) : monitors[k].links # <<>>
    /\ src[<<"B1", "f1">>].mtime > src[<<"B2", "f1">>].mtime
    /\ dst[<<"W1", "f1">>] = File("c1", src[<<"B1", "f1">>].mtime)
    /\ ~has_broken_monitors /\ pass_i = 3

\* ------------------------------------------------ the name and its file
\* C40: whenever workspace_name is a name, the workspace directory holds the
\* file of that name.
C40_NamedWorkspaceStored ==
    workspace_name # "" => workspaces[workspace_name].exists

====
